---- MODULE Spec2Model ----
(***************************************************************************)
(* A model of pydoit-nb: the configuration hydration walk                  *)
(* (config_handling.py), the step-configuration lookup and the             *)
(* step_config_id helpers, the derivation of doit task records from        *)
(* configured notebooks (notebook.py), run_notebook (notebook_run.py),     *)
(* generate_all_tasks (tasks_generation.py), the per-step task generator,  *)
(* load_hydrate_write_config_bundle, the copy-source tasks                 *)
(* (tasks_copy_source.py) and the sub-directory validator                  *)
(* (config_helpers.py).                                                    *)
(***************************************************************************)
EXTENDS Integers, Sequences, FiniteSets, TLC

VARIABLES
    config,      \* insert_path_prefix: the attrs instance passed in
    prefix,      \* insert_path_prefix: the prefix path
    hydrated,    \* result of insert_path_prefix(config, prefix)
    rehydrated,  \* result of insert_path_prefix(hydrated, prefix)
    hpc,         \* position of the caller: "start", "hydrated", "rehydrated"
    objects,     \* the objects in memory: pairs of an address and a value
    lkConfig,    \* get_config_for_step_id: the argument config
    lkStep,      \* get_config_for_step_id: the argument step
    lkId,        \* get_config_for_step_id: the argument step_config_id
    lkResult,    \* what the call returned or raised, None before the call
    tSelf,       \* to_doit_task: the ConfiguredNotebook it is called on
    tArgs,       \* to_doit_task: its arguments
    tResult,     \* what the call returned or raised, None before the call
    gIn,         \* gen_notebook_tasks: the step and the arguments of the call
    gpc,         \* where the generator is suspended
    yielded,     \* the task records yielded so far
    gCalls,      \* the step_config_ids configure_notebooks was called with
    gErr,        \* the exception that ended the generator, None otherwise
    idIn,        \* get_step_config_ids / the uniqueness validator: the argument
    idsResult,   \* what get_step_config_ids returned or raised, None before
    uqResult,    \* what assert_step_config_ids_are_unique did, None before
    aIn,         \* generate_all_tasks: what each step's generator will do
    apc,         \* where the generator of generate_all_tasks is suspended
    notebook_tasks, \* its local list notebook_tasks
    aYielded,    \* the items it has yielded so far
    zCalls,      \* the arguments gen_zenodo_bundle_task was called with
    rIn,         \* run_notebook: its arguments and what its collaborators will do
    rpc,         \* how far the call of run_notebook has got
    rCalls,      \* the calls it has made to the rewriter, mkdir and the executor
    rParentExists, \* whether executed_notebook.parent exists
    rResult,     \* what the call returned or raised, None before
    bIn,         \* load_hydrate_write_config_bundle: its arguments
    bFiles,      \* the files on disk: path to text
    bpc,         \* how far the call has got
    bConfig,     \* its local variable config
    bBundle,     \* its local variable config_bundle
    bCalls,      \* the calls it has made, in order
    bWrites,     \* the paths it has written to, in order
    bResult,     \* what the call returned, None before
    cIn,         \* gen_copy_source_into_output_tasks: its arguments
    cpc,         \* where its generator is suspended
    cYielded,    \* the task records it has yielded so far
    cErr,        \* the exception that ended it, None otherwise
    vIn,         \* the sub-directory validator: instance, attribute, value
    vResult,     \* what the validator returned or raised, None before
    hSelf,       \* repeated to_doit_task calls: the ConfiguredNotebook as built
    hOther,      \* another notebook of the same step and step_config_id
    hArgs,       \* the arguments of every call
    hHeap,       \* the lists and tuples the records refer to
    hResults,    \* what the calls on hSelf returned or raised, in order
    hOtherResult, \* what the call on hOther returned or raised, None before
    mIn,         \* copy_readme_default: its arguments
    mFiles,      \* the files on disk: path to text
    mFilesBefore, \* the files as they were before the call
    mResult      \* what the call returned or raised, None before

hydVars == <<config, prefix, hydrated, rehydrated, hpc, objects>>
lkVars == <<lkConfig, lkStep, lkId, lkResult>>
taskVars == <<tSelf, tArgs, tResult>>
genVars == <<gIn, gpc, yielded, gCalls, gErr>>
idVars == <<idIn, idsResult, uqResult>>
allVars == <<aIn, apc, notebook_tasks, aYielded, zCalls>>
runVars == <<rIn, rpc, rCalls, rParentExists, rResult>>
bundleVars == <<bIn, bFiles, bpc, bConfig, bBundle, bCalls, bWrites, bResult>>
copyVars == <<cIn, cpc, cYielded, cErr>>
subVars == <<vIn, vResult>>
heapVars == <<hSelf, hOther, hArgs, hHeap, hResults, hOtherResult>>
readmeVars == <<mIn, mFiles, mFilesBefore, mResult>>

vars == <<hydVars, lkVars, taskVars, genVars, idVars, allVars, runVars, bundleVars, copyVars, subVars, heapVars, readmeVars>>

\* Largest number of elements in a list, tuple or dict field of a configuration.
MaxLen == 2
\* Largest number of step configurations of one step.
MaxStepConfigs == 3
\* Largest number of declared dependencies of a configured notebook.
MaxDeps == 2
\* Largest number of unconfigured notebooks of a step.
MaxNotebooks == 2
\* Largest number of step configurations in the hydrated config of the step.
MaxIds == 2
\* Largest number of elements handed to get_step_config_ids.
MaxIdElems == 4
\* Largest number of step defining modules.
MaxSteps == 2
\* Largest number of tasks the generator of one step yields.
MaxStepTasks == 2
\* Largest number of tasks that precede the copy-source tasks.
MaxPreceding == 2
\* Largest number of entries of other_files_to_copy.
MaxOtherFiles == 2
\* Largest number of to_doit_task calls on one ConfiguredNotebook.
MaxCalls == 3
\* Largest number of pieces of a README text.
MaxReadme == 3

None == [k |-> "none"]

(***************************************************************************)
(* Python values.  Every value is a record tagged with its kind k.         *)
(***************************************************************************)
PyInt(n) == [k |-> "int", n |-> n]
PyStr(s) == [k |-> "str", s |-> s]
NdArray(a) == [k |-> "ndarray", a |-> a]
\* pint.UnitRegistry.Quantity: an array of magnitudes with units
Quantity(q, units) == [k |-> "quantity", q |-> q, units |-> units]
\* pathlib.Path: absolute or not, and its components after the root
PyPath(abs, parts) == [k |-> "path", abs |-> abs, parts |-> parts]
PyList(v) == [k |-> "list", v |-> v]
PyTuple(v) == [k |-> "tuple", v |-> v]
\* dict: its items <<key, value>> in insertion order, keys pairwise different
PyDict(kv) == [k |-> "dict", kv |-> kv]
\* attrs instance: its class and its fields <<name, value>> in declaration order
Attrs(cls, f) == [k |-> "attrs", cls |-> cls, f |-> f]

\* a join that keeps the left operand also before an absolute right operand
PathJoin_concat(a, b) == PyPath(a.abs, a.parts \o b.parts)

\* pathlib's  a / b : an absolute right operand replaces the left one
PathJoin(a, b) ==
    IF b.abs THEN b ELSE PyPath(a.abs, a.parts \o b.parts)

\* isinstance(value, collections.abc.Iterable)
IsIterable(value) == value.k \in {"list", "tuple", "dict", "str", "ndarray", "quantity"}

\* the characters of a str
Chars(s) == IF s = "ab" THEN <<"a", "b">> ELSE IF s = "" THEN <<>> ELSE <<s>>

\* what  for v in value  walks through
Iter(value) ==
    CASE value.k = "str" -> [i \in 1..Len(Chars(value.s)) |-> PyStr(Chars(value.s)[i])]
      [] value.k = "ndarray" -> [i \in 1..Len(value.a) |-> PyInt(value.a[i])]
      [] value.k = "quantity" -> [i \in 1..Len(value.q) |-> Quantity(<<value.q[i]>>, value.units)]
      [] OTHER -> value.v

\* pint can be imported
HAS_PINT == TRUE

\* dict[key] = val : a key already present keeps its place and gets the new value
DictSet(kv, key, val) ==
    IF \E j \in 1..Len(kv) : kv[j][1] = key
    THEN [j \in 1..Len(kv) |-> IF kv[j][1] = key THEN <<kv[j][1], val>> ELSE kv[j]]
    ELSE Append(kv, <<key, val>>)

\* a check that finds every iterable updatable
iterable_values_are_updatable_all(value) == TRUE

iterable_values_are_updatable(value) ==
    LET to_check == {"str", "ndarray"} \cup (IF HAS_PINT THEN {"quantity"} ELSE {})
    IN  value.k \notin to_check

RECURSIVE insert_path_prefix(_, _)
RECURSIVE update_attr_value(_, _)
RECURSIVE DictComprehension(_, _, _)

\* { update_attr_value(k): update_attr_value(v) for k, v in attr_value.items() }
DictComprehension(kv, pfx, acc) ==
    IF kv = <<>> THEN acc
    ELSE DictComprehension(Tail(kv), pfx,
            DictSet(acc, update_attr_value(Head(kv)[1], pfx),
                         update_attr_value(Head(kv)[2], pfx)))

\* the body of the loop of insert_path_prefix: the evolution of one attribute
Evolution(attr_value, pfx) ==
    IF attr_value.k = "dict"
    THEN PyDict(DictComprehension(attr_value.kv, pfx, <<>>))
    ELSE IF IsIterable(attr_value) /\ iterable_values_are_updatable(attr_value)
    THEN PyList([i \in 1..Len(Iter(attr_value)) |-> update_attr_value(Iter(attr_value)[i], pfx)])
    ELSE update_attr_value(attr_value, pfx)

insert_path_prefix(cfg, pfx) ==
    Attrs(cfg.cls, [i \in 1..Len(cfg.f) |-> <<cfg.f[i][1], Evolution(cfg.f[i][2], pfx)>>])

\* update_attr_value with the operands of  prefix / value  exchanged
update_attr_value_swapped(value, pfx) ==
    IF value.k = "attrs" THEN insert_path_prefix(value, pfx)
    ELSE IF value.k = "path" THEN PathJoin(value, pfx)
    ELSE value

update_attr_value(value, pfx) ==
    IF value.k = "attrs" THEN insert_path_prefix(value, pfx)
    ELSE IF value.k = "path" THEN PathJoin(pfx, value)
    ELSE value

(***************************************************************************)
(* The configurations the walk is run on.                                  *)
(***************************************************************************)
SeqsUpTo(S, n) == UNION {[1..m -> S] : m \in 0..n}

RelA == PyPath(FALSE, <<"a">>)         \* Path("a")
RelPA == PyPath(FALSE, <<"P", "a">>)   \* Path("P/a")
AbsPA == PyPath(TRUE, <<"P", "a">>)    \* Path("/P/a")
Paths == {RelA, RelPA, AbsPA}
Scalars ==
    {PyInt(1), PyStr("s"), PyStr("ab"), NdArray(<<1, 2, 3>>),
     Quantity(<<1, 2>>, "m"), None}

\* StepConfig(step_config_id: str, output: Path)
StepConfig(id, output) == Attrs("StepConfig", << <<"step_config_id", PyStr(id)>>, <<"output", output>> >>)

\* what a list, a tuple or a dict of a configuration field may hold
Elems ==
    {PyInt(1), PyStr("s"), RelA, AbsPA,
     PyList(<<RelA>>), StepConfig("x", RelA)}
Keys == {PyStr("s"), RelA, AbsPA}

Dicts ==
    {PyDict(kv) : kv \in {s \in SeqsUpTo(Keys \X Elems, MaxLen) :
                            \A i, j \in 1..Len(s) : i # j => s[i][1] # s[j][1]}}

FieldValues ==
    Paths \cup Scalars
    \cup {PyList(v) : v \in SeqsUpTo(Elems, MaxLen)}
    \cup {PyTuple(v) : v \in SeqsUpTo(Elems, MaxLen)}
    \cup Dicts
    \cup {StepConfig("x", p) : p \in Paths}

\* Config(run_id: str, f: Any)
Config(v) == Attrs("Config", << <<"run_id", PyStr("r")>>, <<"f", v>> >>)

AbsP == PyPath(TRUE, <<"P">>)      \* Path("/P")
RelP == PyPath(FALSE, <<"P">>)     \* Path("P")
EmptyPath == PyPath(FALSE, <<>>)   \* Path("")

\* the elements of a list or tuple and the values of a dict, each at the
\* address it has inside its container
ElementsOf(addr, value) ==
    IF value.k \in {"list", "tuple"}
    THEN {<<addr \o "[" \o ToString(j) \o "]", value.v[j]>> : j \in 1..Len(value.v)}
    ELSE IF value.k = "dict"
    THEN {<<addr \o "[" \o ToString(j) \o "]", value.kv[j][2]>> : j \in 1..Len(value.kv)}
    ELSE {}

\* an attrs instance at address root with the values of its fields and what
\* its containers hold
ObjectsOf(rec, root) ==
    {<<root, rec>>}
    \cup {<<root \o "." \o rec.f[i][1], rec.f[i][2]>> : i \in 1..Len(rec.f)}
    \cup UNION {ElementsOf(root \o "." \o rec.f[i][1], rec.f[i][2]) : i \in 1..Len(rec.f)}

\* writing objects: what was at their addresses is gone
Store(objs, new) == {o \in objs : \A n \in new : n[1] # o[1]} \cup new

\* the walk writing its results over its argument
Evolved_in_place(addr) == addr
\* the dict and list comprehensions (lines 55-60) and evolve (line 65) make
\* new objects: none of them has the address of an object of the argument
Evolved(addr) == "evolved " \o addr

ConfigAddress == "config"

InitHydrate ==
    /\ config \in {Config(v) : v \in FieldValues}
    /\ (prefix = AbsP \/ prefix = RelP \/ prefix = EmptyPath)
    /\ hydrated = None
    /\ rehydrated = None
    /\ hpc = "start"
    /\ objects = ObjectsOf(config, ConfigAddress)

\* config = insert_path_prefix(config, prefix=root_dir_output_run)
Hydrate ==
    /\ hpc = "start"
    /\ hydrated' = insert_path_prefix(config, prefix)
    /\ hpc' = "hydrated"
    /\ objects' = Store(objects, ObjectsOf(hydrated', Evolved(ConfigAddress)))
    /\ UNCHANGED <<config, prefix, rehydrated>>
    /\ UNCHANGED <<lkVars, taskVars, genVars, idVars, allVars, runVars, bundleVars, copyVars, subVars, heapVars, readmeVars>>

\* a second run of the walk, on the record the first one returned
Rehydrate ==
    /\ hpc = "hydrated"
    /\ rehydrated' = insert_path_prefix(hydrated, prefix)
    /\ hpc' = "rehydrated"
    /\ objects' = Store(objects, ObjectsOf(rehydrated', Evolved(Evolved(ConfigAddress))))
    /\ UNCHANGED <<config, prefix, hydrated>>
    /\ UNCHANGED <<lkVars, taskVars, genVars, idVars, allVars, runVars, bundleVars, copyVars, subVars, heapVars, readmeVars>>

IdleHydrate ==
    /\ config = Config(None)
    /\ prefix = EmptyPath
    /\ hydrated = None
    /\ rehydrated = None
    /\ hpc = "idle"
    /\ objects = {}

(***************************************************************************)
(* get_config_for_step_id                                                  *)
(***************************************************************************)
Return(value) == [status |-> "return", value |-> value]
Raise(exc, msg) == [status |-> "raise", exc |-> exc, msg |-> msg]

HasAttr(obj, name) == \E i \in 1..Len(obj.f) : obj.f[i][1] = name
GetAttr(obj, name) == obj.f[CHOOSE i \in 1..Len(obj.f) : obj.f[i][1] = name][2]

\* the step_config_id of every record of a sequence of step configs, in order
StepIds(possibilities) ==
    [i \in 1..Len(possibilities) |-> GetAttr(possibilities[i], "step_config_id").s]

\* f"Couldn't find {step_config_id=} for {step=}. Available step config IDs: {...}"
CouldntFind(step_config_id, step, available) ==
    [text |-> "Couldn't find step_config_id for step. Available step config IDs:",
     step_config_id |-> step_config_id, step |-> step, available |-> available]

RECURSIVE LookupLoop(_, _, _, _)
\* a loop that keeps the last record with the requested id instead of
\* returning at the first one
LookupLoop_lastmatch(possibilities, step, step_config_id, available_step_config_ids) ==
    LET matches == {i \in 1..Len(possibilities) :
                        GetAttr(possibilities[i], "step_config_id").s = step_config_id}
    IN  IF matches = {}
        THEN Raise("ValueError",
                   CouldntFind(step_config_id, step,
                        [i \in 1..Len(possibilities) |->
                            GetAttr(possibilities[i], "step_config_id").s]))
        ELSE Return(possibilities[CHOOSE i \in matches : \A j \in matches : j <= i])

\* the for loop over possibilities, and the raise that follows it
LookupLoop(possibilities, step, step_config_id, available_step_config_ids) ==
    IF possibilities = <<>>
    THEN Raise("ValueError", CouldntFind(step_config_id, step, available_step_config_ids))
    ELSE LET poss == Head(possibilities) IN
         IF GetAttr(poss, "step_config_id").s = step_config_id
         THEN Return(poss)
         ELSE LookupLoop(Tail(possibilities), step, step_config_id,
                         Append(available_step_config_ids, GetAttr(poss, "step_config_id").s))

\* getattr(config, step, []) in place of getattr(config, step)
get_config_for_step_id_default(cfg, step, step_config_id) ==
    LookupLoop(IF HasAttr(cfg, step) THEN GetAttr(cfg, step).v ELSE <<>>,
               step, step_config_id, <<>>)

get_config_for_step_id(cfg, step, step_config_id) ==
    IF ~HasAttr(cfg, step)
    THEN Raise("AttributeError", step)
    ELSE LookupLoop(GetAttr(cfg, step).v, step, step_config_id, <<>>)

\* StepConfigA(step_config_id: str, other: str), StepConfigB(step_config_id: str)
StepConfigA(id, other) ==
    Attrs("StepConfigA", << <<"step_config_id", PyStr(id)>>, <<"other", PyStr(other)>> >>)
StepConfigB(id) == Attrs("StepConfigB", << <<"step_config_id", PyStr(id)>> >>)
\* ConfigA(step_a: list[StepConfigA], step_b: list[StepConfigB])
ConfigA(step_a, step_b) ==
    Attrs("ConfigA", << <<"step_a", PyList(step_a)>>, <<"step_b", PyList(step_b)>> >>)

StepConfigsA == {StepConfigA(id, other) : id \in {"junk", "main"}, other \in {"o1", "o2"}}

InitLookup ==
    /\ lkConfig \in {ConfigA(a, <<StepConfigB("hello")>>) :
                        a \in SeqsUpTo(StepConfigsA, MaxStepConfigs)}
    /\ lkStep \in {"step_a", "step_b", "junk"}
    /\ lkId \in {"junk", "main", "gnome"}
    /\ lkResult = None

IdleLookup ==
    /\ lkConfig = ConfigA(<<>>, <<>>)
    /\ lkStep = "step_a"
    /\ lkId = "main"
    /\ lkResult = None

\* res = get_config_for_step_id(config, step=step, step_config_id=step_config_id)
Lookup ==
    /\ lkResult = None
    /\ lkResult' = get_config_for_step_id(lkConfig, lkStep, lkId)
    /\ UNCHANGED <<lkConfig, lkStep, lkId>>
    /\ UNCHANGED <<hydVars, taskVars, genVars, idVars, allVars, runVars, bundleVars, copyVars, subVars, heapVars, readmeVars>>

(***************************************************************************)
(* ConfiguredNotebook.to_doit_task                                         *)
(***************************************************************************)
UnconfiguredNotebook(notebook_path, raw_notebook_ext, summary, doc) ==
    [notebook_path |-> notebook_path, raw_notebook_ext |-> raw_notebook_ext,
     summary |-> summary, doc |-> doc]

ConfiguredNotebook(unconfigured_notebook, dependencies, targets, config_file, step_config_id, configuration) ==
    [unconfigured_notebook |-> unconfigured_notebook, dependencies |-> dependencies,
     targets |-> targets, config_file |-> config_file,
     step_config_id |-> step_config_id, configuration |-> configuration]

\* PurePath.name: the last component
PathName(p) == IF p.parts = <<>> THEN "" ELSE p.parts[Len(p.parts)]

\* the name without its last suffix, for the names notebooks have here
NameStem(name) == IF name = "plot.v1" THEN "plot" ELSE name

\* PurePath.with_suffix
WithSuffix(p, suffix) ==
    PyPath(p.abs, [i \in 1..Len(p.parts) |->
                      IF i = Len(p.parts) THEN NameStem(p.parts[i]) \o suffix
                      ELSE p.parts[i]])

RECURSIVE JoinParts(_)
JoinParts(parts) ==
    IF parts = <<>> THEN ""
    ELSE IF Len(parts) = 1 THEN parts[1]
    ELSE parts[1] \o "/" \o JoinParts(Tail(parts))

\* str(path)
PathStr(p) ==
    IF p.abs THEN "/" \o JoinParts(p.parts)
    ELSE IF p.parts = <<>> THEN "." ELSE JoinParts(p.parts)

\* converter.dumps(obj, sort_keys=...): the text is kept as what was dumped
Dumps(obj, sort_keys) == [dumps |-> obj, sort_keys |-> sort_keys]

\* config_changed_class(text)
ConfigChanged(text) == [cls |-> "config_changed", config |-> text]

RawNotebook(self, root_dir_raw_notebooks) ==
    PathJoin(root_dir_raw_notebooks,
             WithSuffix(self.unconfigured_notebook.notebook_path,
                        self.unconfigured_notebook.raw_notebook_ext))

\* dependencies with the raw notebook put first
Dependencies_raw_first(self, raw_notebook) == <<raw_notebook>> \o self.dependencies

\* dependencies = [*self.dependencies, raw_notebook]
Dependencies(self, raw_notebook) == self.dependencies \o <<raw_notebook>>

\* a doc that is the base task's doc and nothing more
TaskDoc_base_only(self, base_task) == base_task.doc

\* f"{base_task['doc']}. step_config_id={self.step_config_id!r}"
TaskDoc(self, base_task) ==
    base_task.doc \o ". step_config_id='" \o self.step_config_id \o "'"

\* a task dict that takes its name from the base task's basename
TaskDict_name_from_base(self, root_dir_raw_notebooks, notebook_output_dir, base_task, clean) ==
    LET raw_notebook == RawNotebook(self, root_dir_raw_notebooks)
        notebook_name == PathName(self.unconfigured_notebook.notebook_path)
    IN  [basename |-> base_task.basename,
         name |-> base_task.basename,
         doc |-> TaskDoc(self, base_task),
         actions |-> << <<"run_notebook", <<>>,
                          [base_notebook |-> raw_notebook,
                           unexecuted_notebook |->
                               PathJoin(notebook_output_dir,
                                        PyPath(FALSE, <<notebook_name \o "_unexecuted.ipynb">>)),
                           executed_notebook |->
                               PathJoin(notebook_output_dir,
                                        PyPath(FALSE, <<notebook_name \o ".ipynb">>)),
                           notebook_parameters |->
                               [config_file |-> PathStr(self.config_file),
                                step_config_id |-> self.step_config_id]]>> >>,
         targets |-> self.targets,
         file_dep |-> Dependencies(self, raw_notebook),
         clean |-> clean]

\* the task dict as built before the configuration is looked at
TaskDict(self, root_dir_raw_notebooks, notebook_output_dir, base_task, clean) ==
    LET raw_notebook == RawNotebook(self, root_dir_raw_notebooks)
        notebook_name == PathName(self.unconfigured_notebook.notebook_path)
        unexecuted_notebook ==
            PathJoin(notebook_output_dir, PyPath(FALSE, <<notebook_name \o "_unexecuted.ipynb">>))
        executed_notebook ==
            PathJoin(notebook_output_dir, PyPath(FALSE, <<notebook_name \o ".ipynb">>))
        dependencies == Dependencies(self, raw_notebook)
        notebook_parameters ==
            [config_file |-> PathStr(self.config_file), step_config_id |-> self.step_config_id]
    IN  [basename |-> base_task.basename,
         name |-> self.step_config_id,
         doc |-> TaskDoc(self, base_task),
         actions |-> << <<"run_notebook", <<>>,
                          [base_notebook |-> raw_notebook,
                           unexecuted_notebook |-> unexecuted_notebook,
                           executed_notebook |-> executed_notebook,
                           notebook_parameters |-> notebook_parameters]>> >>,
         targets |-> self.targets,
         file_dep |-> dependencies,
         clean |-> clean]

\* task["uptodate"] = uptodate
WithUptodate(task, uptodate) ==
    [basename |-> task.basename, name |-> task.name, doc |-> task.doc,
     actions |-> task.actions, targets |-> task.targets, file_dep |-> task.file_dep,
     clean |-> task.clean, uptodate |-> uptodate]

\* the message of the ValueError (its backquotes left out)
MsgConverterMustBeSupplied ==
    "If self.configuration is not None then converter must be supplied"

\* to_doit_task appending the configuration file to file_dep in both branches
to_doit_task_always_file_dep(self, root_dir_raw_notebooks, notebook_output_dir, base_task, converter, clean) ==
    LET task == TaskDict(self, root_dir_raw_notebooks, notebook_output_dir, base_task, clean)
        extended == [task EXCEPT !.file_dep = @ \o <<self.config_file>>]
    IN  IF self.configuration = None
        THEN Return(extended)
        ELSE IF converter = None
        THEN Raise("ValueError", MsgConverterMustBeSupplied)
        ELSE Return(WithUptodate(extended,
                        <<ConfigChanged(Dumps(self.configuration, TRUE))>>))

\* to_doit_task raising the TypeError its docstring names
to_doit_task_type_error(self, root_dir_raw_notebooks, notebook_output_dir, base_task, converter, clean) ==
    LET task == TaskDict(self, root_dir_raw_notebooks, notebook_output_dir, base_task, clean)
    IN  IF self.configuration = None
        THEN Return([task EXCEPT !.file_dep = @ \o <<self.config_file>>])
        ELSE IF converter = None
        THEN Raise("TypeError", MsgConverterMustBeSupplied)
        ELSE Return(WithUptodate(task,
                        <<ConfigChanged(Dumps(self.configuration, TRUE))>>))

to_doit_task(self, root_dir_raw_notebooks, notebook_output_dir, base_task, converter, clean) ==
    LET task == TaskDict(self, root_dir_raw_notebooks, notebook_output_dir, base_task, clean)
    IN  IF self.configuration = None
        THEN Return([task EXCEPT !.file_dep = @ \o <<self.config_file>>])
        ELSE IF converter = None
        THEN Raise("ValueError", MsgConverterMustBeSupplied)
        ELSE Return(WithUptodate(task,
                        <<ConfigChanged(Dumps(self.configuration, TRUE))>>))

\* def run_notebook(raw_notebook, unexecuted_notebook, executed_notebook,
\*                  notebook_parameters=None, notebook_rewriter=None, notebook_executor=None)
RunNotebookRequired == {"raw_notebook", "unexecuted_notebook", "executed_notebook"}
RunNotebookOptional == {"notebook_parameters", "notebook_rewriter", "notebook_executor"}

\* whether  func(*args, **kwargs)  binds for an action (func, args, kwargs)
\* whose func is run_notebook and whose args are empty
ActionBinds(action) ==
    /\ DOMAIN action[3] \subseteq RunNotebookRequired \cup RunNotebookOptional
    /\ RunNotebookRequired \subseteq DOMAIN action[3]

ConfigFile == PyPath(TRUE, <<"to", "config.yaml">>)
Dependency == PyPath(TRUE, <<"to", "dependency.csv">>)
Target == PyPath(TRUE, <<"to", "output.nc">>)
NotebookPaths ==
    {PyPath(FALSE, <<"a", "plot">>), PyPath(FALSE, <<"b", "plot">>), PyPath(FALSE, <<"plot.v1">>),
     PyPath(TRUE, <<"raw", "notebook", "path">>)}
Configurations == {None, PyTuple(<<PyInt(3)>>), PyTuple(<<PyInt(3), PyStr("a string")>>)}
Converters == {None, PyStr("converter")}
BaseTask == [basename |-> "base_task_name", doc |-> "base task docs"]
RootDirRawNotebooks == PyPath(TRUE, <<"raw">>)
NotebookOutputDir == PyPath(TRUE, <<"out">>)

InitTask ==
    /\ tSelf \in {ConfiguredNotebook(
                        UnconfiguredNotebook(nbp, ".py", "Summary line", "Docs go here."),
                        deps, targets, ConfigFile, "sensitivity", configuration) :
                    nbp \in NotebookPaths,
                    deps \in SeqsUpTo({Dependency, ConfigFile}, MaxDeps),
                    targets \in {<<>>, <<Target>>},
                    configuration \in Configurations}
    /\ tArgs \in {[root_dir_raw_notebooks |-> RootDirRawNotebooks,
                    notebook_output_dir |-> NotebookOutputDir,
                    base_task |-> BaseTask, converter |-> converter, clean |-> clean] :
                    converter \in Converters, clean \in BOOLEAN}
    /\ tResult = None

IdleTask ==
    /\ tSelf = None
    /\ tArgs = None
    /\ tResult = None

\* res = configured.to_doit_task(root_dir_raw_notebooks=..., ...)
ToDoitTask ==
    /\ tSelf # None
    /\ tResult = None
    /\ tResult' = to_doit_task(tSelf, tArgs.root_dir_raw_notebooks, tArgs.notebook_output_dir,
                                tArgs.base_task, tArgs.converter, tArgs.clean)
    /\ UNCHANGED <<tSelf, tArgs>>
    /\ UNCHANGED <<hydVars, lkVars, genVars, idVars, allVars, runVars, bundleVars, copyVars, subVars, heapVars, readmeVars>>

(***************************************************************************)
(* Several to_doit_task calls (notebook.py): the lists and tuples live in  *)
(* a heap, so that a task record can share one with the notebook it was    *)
(* made from.                                                              *)
(***************************************************************************)
\* the objects self.dependencies and self.targets are
SelfDependencies == "self.dependencies"
SelfTargets == "self.targets"

\* dependencies bound to the notebook's own object
FileDepList_aliased(call) == SelfDependencies
\* dependencies = [*self.dependencies, raw_notebook]: a new list in every call
FileDepList(call) == "dependencies of call " \o ToString(call)

\* the ConfiguredNotebook as it is now
SelfNow == [hSelf EXCEPT !.dependencies = hHeap[SelfDependencies], !.targets = hHeap[SelfTargets]]

\* a returned task record with its lists as they are now
TaskNow(task) == [task EXCEPT !.file_dep = hHeap[task.file_dep], !.targets = hHeap[task.targets]]

\* targets = self.targets; file_dep=dependencies: the record holds the objects
TaskOnHeap(result, call) ==
    IF result.status = "return"
    THEN Return([result.value EXCEPT !.file_dep = FileDepList(call), !.targets = SelfTargets])
    ELSE result

InitHeap ==
    /\ hSelf \in {ConfiguredNotebook(
                        UnconfiguredNotebook(nbp, ".py", "Summary line", "Docs go here."),
                        deps, targets, ConfigFile, "sensitivity", configuration) :
                    nbp \in NotebookPaths,
                    deps \in SeqsUpTo({Dependency, ConfigFile}, MaxDeps),
                    targets \in {<<>>, <<Target>>},
                    configuration \in Configurations}
    /\ \E nbp \in NotebookPaths :
          /\ nbp # hSelf.unconfigured_notebook.notebook_path
          /\ hOther = [hSelf EXCEPT !.unconfigured_notebook.notebook_path = nbp]
    /\ hArgs \in {[root_dir_raw_notebooks |-> RootDirRawNotebooks,
                    notebook_output_dir |-> NotebookOutputDir,
                    base_task |-> BaseTask, converter |-> converter, clean |-> TRUE] :
                    converter \in Converters}
    /\ hHeap = (SelfDependencies :> hSelf.dependencies) @@ (SelfTargets :> hSelf.targets)
    /\ hResults = <<>>
    /\ hOtherResult = None

IdleHeap ==
    /\ hSelf = None
    /\ hOther = None
    /\ hArgs = None
    /\ hHeap = <<>>
    /\ hResults = <<>>
    /\ hOtherResult = None

\* one more call configured.to_doit_task(...) on the same notebook: the list
\* bound to dependencies is filled (and extended by the configuration file in
\* the branch of line 168) where FileDepList says it lives
ToDoitTaskAgain ==
    /\ hSelf # None
    /\ Len(hResults) < MaxCalls
    /\ LET call == Len(hResults) + 1
           result == to_doit_task(SelfNow, hArgs.root_dir_raw_notebooks, hArgs.notebook_output_dir,
                                  hArgs.base_task, hArgs.converter, hArgs.clean)
       IN  /\ hResults' = Append(hResults, TaskOnHeap(result, call))
           /\ hHeap' = IF result.status = "return"
                       THEN (FileDepList(call) :> result.value.file_dep) @@ hHeap
                       ELSE hHeap
    /\ UNCHANGED <<hSelf, hOther, hArgs, hOtherResult>>
    /\ UNCHANGED <<hydVars, lkVars, taskVars, genVars, idVars, allVars, runVars, bundleVars, copyVars, subVars, readmeVars>>

\* to_doit_task on another notebook of the same step and step_config_id,
\* with the same arguments
ToDoitTaskOther ==
    /\ hOther # None
    /\ hOtherResult = None
    /\ hOtherResult' = to_doit_task(hOther, hArgs.root_dir_raw_notebooks, hArgs.notebook_output_dir,
                                     hArgs.base_task, hArgs.converter, hArgs.clean)
    /\ UNCHANGED <<hSelf, hOther, hArgs, hHeap, hResults>>
    /\ UNCHANGED <<hydVars, lkVars, taskVars, genVars, idVars, allVars, runVars, bundleVars, copyVars, subVars, readmeVars>>

(***************************************************************************)
(* UnconfiguredNotebookBasedStep.gen_notebook_tasks                        *)
(* (notebook_step.py): the generator's loops follow the documented         *)
(* protocol of the step task generator and what the integration tests      *)
(* assert; every configured record is built by to_doit_task above.         *)
(***************************************************************************)
\* a base task named after the notebook's summary alone
BaseTaskOf_summary_only(nb) == [basename |-> nb.summary, name |-> None, doc |-> nb.doc]

\* the base task of one unconfigured notebook
BaseTaskOf(nb) ==
    [basename |-> "(" \o PathStr(nb.notebook_path) \o ") " \o nb.summary,
     name |-> None,
     doc |-> nb.doc]

\* the step_config_ids of the step's field of the hydrated config, in order
GenStepIds(in) == StepIds(GetAttr(in.config_bundle.config_hydrated, in.step_name).v)

\* the injected configure_notebooks: one ConfiguredNotebook per unconfigured
\* notebook, in order; for the ids in in.short it leaves the last notebook out
Configure(in, step_config_id) ==
    LET nbs == in.unconfigured_notebooks
        n == IF step_config_id \in in.short /\ Len(nbs) > 0 THEN Len(nbs) - 1 ELSE Len(nbs)
    IN  [j \in 1..n |->
            ConfiguredNotebook(nbs[j], <<Dependency>>, <<Target>>,
                               in.config_bundle.config_hydrated_path,
                               step_config_id, in.configuration)]

\* root_dir_output_run / "notebooks-executed" / step_name / step_config_id
GenNotebookOutputDir(in, step_config_id) ==
    PathJoin(in.config_bundle.root_dir_output_run,
             PyPath(FALSE, <<"notebooks-executed", in.step_name, step_config_id>>))

MsgNotTheSame ==
    "The number of unconfigured and configured notebooks is not the same."

\* the task of the j-th configured notebook of the m-th step_config_id
GenConfiguredTask(in, m, j, calls) ==
    LET step_config_id == GenStepIds(in)[m]
        nb_configured == Configure(in, step_config_id)[j]
        res == to_doit_task(nb_configured, in.root_dir_raw_notebooks,
                            GenNotebookOutputDir(in, step_config_id),
                            BaseTaskOf(nb_configured.unconfigured_notebook),
                            in.converter, in.clean)
    IN  IF res.status = "raise"
        THEN [kind |-> "raise", exc |-> res.exc, msg |-> res.msg, calls |-> calls]
        ELSE [kind |-> "yield", task |-> res.value,
              pc |-> [at |-> "configured", m |-> m, j |-> j], calls |-> calls]

RECURSIVE GenEnterGroup(_, _, _)
\* a loop over the step_config_ids that yields what configure_notebooks
\* returned without comparing its length with the number of notebooks
GenEnterGroup_unchecked(in, m, calls) ==
    IF m > Len(GenStepIds(in))
    THEN [kind |-> "stop", calls |-> calls]
    ELSE LET step_config_id == GenStepIds(in)[m]
             calls2 == Append(calls, step_config_id)
         IN  IF Len(Configure(in, step_config_id)) = 0
             THEN GenEnterGroup(in, m + 1, calls2)
             ELSE GenConfiguredTask(in, m, 1, calls2)

\* the loop over the step_config_ids, from the m-th on, up to the next yield
GenEnterGroup(in, m, calls) ==
    IF m > Len(GenStepIds(in))
    THEN [kind |-> "stop", calls |-> calls]
    ELSE LET step_config_id == GenStepIds(in)[m]
             configured_notebooks == Configure(in, step_config_id)
             calls2 == Append(calls, step_config_id)
         IN  IF Len(configured_notebooks) # Len(in.unconfigured_notebooks)
             THEN [kind |-> "raise", exc |-> "NotImplementedError",
                   msg |-> MsgNotTheSame, calls |-> calls2]
             ELSE IF Len(configured_notebooks) = 0
             THEN GenEnterGroup(in, m + 1, calls2)
             ELSE GenConfiguredTask(in, m, 1, calls2)

GenYieldBase(in, i, calls) ==
    [kind |-> "yield", task |-> BaseTaskOf(in.unconfigured_notebooks[i]),
     pc |-> [at |-> "base", i |-> i], calls |-> calls]

\* one next() on the generator suspended at pc: what it runs up to its next
\* yield, its return or the exception that leaves it
GenResume(in, pc, calls) ==
    CASE pc.at = "start" ->
            IF Len(in.unconfigured_notebooks) >= 1
            THEN GenYieldBase(in, 1, calls)
            ELSE GenEnterGroup(in, 1, calls)
      [] pc.at = "base" ->
            IF pc.i < Len(in.unconfigured_notebooks)
            THEN GenYieldBase(in, pc.i + 1, calls)
            ELSE GenEnterGroup(in, 1, calls)
      [] pc.at = "configured" ->
            IF pc.j < Len(Configure(in, GenStepIds(in)[pc.m]))
            THEN GenConfiguredTask(in, pc.m, pc.j + 1, calls)
            ELSE GenEnterGroup(in, pc.m + 1, calls)

\* PlotConfig(step_config_id: str);  Config(plot: list[PlotConfig])
PlotConfig(id) == Attrs("PlotConfig", << <<"step_config_id", PyStr(id)>> >>)
PlotConfigs(ids) ==
    Attrs("Config", << <<"plot", PyList([i \in 1..Len(ids) |-> PlotConfig(ids[i])])>> >>)

DistinctSeqs(S, n) ==
    {q \in SeqsUpTo(S, n) : \A i, j \in 1..Len(q) : i # j => q[i] # q[j]}

GenNotebooks ==
    {UnconfiguredNotebook(PyPath(FALSE, <<"notebook", "plot-one">>), ".py",
                          "Some summary", "Some docs"),
     UnconfiguredNotebook(PyPath(FALSE, <<"notebook", "path-to", "plot-two">>), ".md",
                          "Some summary here", "Some other docs"),
     UnconfiguredNotebook(PyPath(FALSE, <<"notebook", "plot-three">>), ".py",
                          "Third summary", "Third docs")}
GenIds == {"default", "inverse", "third"}
RootDirOutputRun == PyPath(FALSE, <<"Outputs", "go", "here">>)

InitGen ==
    /\ gIn \in {[step_name |-> "plot",
                  unconfigured_notebooks |-> nbs,
                  config_bundle |->
                      [config_hydrated |-> PlotConfigs(ids),
                       config_hydrated_path |->
                            PathJoin(RootDirOutputRun, PyPath(FALSE, <<"config-hydrated.yaml">>)),
                       root_dir_output_run |-> RootDirOutputRun],
                  root_dir_raw_notebooks |-> RootDirRawNotebooks,
                  converter |-> converter,
                  clean |-> clean,
                  short |-> short,
                  configuration |-> configuration] :
                    nbs \in DistinctSeqs(GenNotebooks, MaxNotebooks),
                    ids \in DistinctSeqs(GenIds, MaxIds),
                    short \in SUBSET GenIds,
                    converter \in Converters,
                    clean \in BOOLEAN,
                    configuration \in {None, PyTuple(<<PyStr("hi"), PyInt(1)>>)}}
    /\ \A id \in gIn.short : \E i \in DOMAIN GenStepIds(gIn) : GenStepIds(gIn)[i] = id
    /\ gpc = [at |-> "start"]
    /\ yielded = <<>>
    /\ gCalls = <<>>
    /\ gErr = None

IdleGen ==
    /\ gIn = None
    /\ gpc = [at |-> "idle"]
    /\ yielded = <<>>
    /\ gCalls = <<>>
    /\ gErr = None

GenSuspended == gpc.at \in {"start", "base", "configured"}

\* next(generator) that yields the base task of an unconfigured notebook
NextBaseTask ==
    /\ GenSuspended
    /\ LET o == GenResume(gIn, gpc, gCalls) IN
        /\ o.kind = "yield"
        /\ o.pc.at = "base"
        /\ yielded' = Append(yielded, o.task)
        /\ gpc' = o.pc
        /\ gCalls' = o.calls
    /\ UNCHANGED <<gIn, gErr>>
    /\ UNCHANGED <<hydVars, lkVars, taskVars, idVars, allVars, runVars, bundleVars, copyVars, subVars, heapVars, readmeVars>>

\* next(generator) that yields the task of a configured notebook
NextConfiguredTask ==
    /\ GenSuspended
    /\ LET o == GenResume(gIn, gpc, gCalls) IN
        /\ o.kind = "yield"
        /\ o.pc.at = "configured"
        /\ yielded' = Append(yielded, o.task)
        /\ gpc' = o.pc
        /\ gCalls' = o.calls
    /\ UNCHANGED <<gIn, gErr>>
    /\ UNCHANGED <<hydVars, lkVars, taskVars, idVars, allVars, runVars, bundleVars, copyVars, subVars, heapVars, readmeVars>>

\* next(generator) that leaves the generator with an exception
NextRaises ==
    /\ GenSuspended
    /\ LET o == GenResume(gIn, gpc, gCalls) IN
        /\ o.kind = "raise"
        /\ gErr' = [exc |-> o.exc, msg |-> o.msg]
        /\ gpc' = [at |-> "raised"]
        /\ gCalls' = o.calls
    /\ UNCHANGED <<gIn, yielded>>
    /\ UNCHANGED <<hydVars, lkVars, taskVars, idVars, allVars, runVars, bundleVars, copyVars, subVars, heapVars, readmeVars>>

\* next(generator) that finds the generator exhausted (StopIteration)
NextStops ==
    /\ GenSuspended
    /\ LET o == GenResume(gIn, gpc, gCalls) IN
        /\ o.kind = "stop"
        /\ gpc' = [at |-> "done"]
        /\ gCalls' = o.calls
    /\ UNCHANGED <<gIn, yielded, gErr>>
    /\ UNCHANGED <<hydVars, lkVars, taskVars, idVars, allVars, runVars, bundleVars, copyVars, subVars, heapVars, readmeVars>>

(***************************************************************************)
(* get_step_config_ids and assert_step_config_ids_are_unique               *)
(***************************************************************************)
\* hasattr(c, "step_config_id")
HasStepConfigId(c) == c.k = "attrs" /\ HasAttr(c, "step_config_id")

RECURSIVE ReprFields(_, _)
\* repr of a value: 'text' for a str, Class(name='value', ...) for attrs
Repr(value) ==
    CASE value.k = "str" -> "'" \o value.s \o "'"
      [] value.k = "int" -> ToString(value.n)
      [] value.k = "attrs" -> value.cls \o "(" \o ReprFields(value.f, 1) \o ")"
      [] OTHER -> "<object>"
ReprFields(f, i) ==
    IF i > Len(f) THEN ""
    ELSE f[i][1] \o "=" \o Repr(f[i][2]) \o
         (IF i < Len(f) THEN ", " ELSE "") \o ReprFields(f, i + 1)

\* f"{c!r} is missing a `step_config_id` attribute" (its backquotes left out)
MsgMissing(c) == Repr(c) \o " is missing a step_config_id attribute"

\* the indices of the elements without a step_config_id
Offending(items) == {i \in 1..Len(items) : ~HasStepConfigId(items[i])}
Min(S) == CHOOSE x \in S : \A y \in S : x <= y

\* step_configs is a list (or tuple), which every for loop walks from its
\* start, or an iterator, which the second loop takes up where the list
\* comprehension left it: after the first element without the attribute
get_step_config_ids(step_configs) ==
    LET items == step_configs.items
        bad == Offending(items)
    IN  IF bad = {}
        THEN Return(StepIds(items))
        ELSE LET first == Min(bad)
                 start == IF step_configs.kind = "iterator" THEN first + 1 ELSE 1
                 seen == {i \in bad : i >= start}
             IN  IF seen # {}
                 THEN Raise("AttributeError", MsgMissing(items[Min(seen)]))
                 ELSE Raise("NotImplementedError", "How did you get here")

\* collections.Counter(step_config_ids).items() with count > 1: the ids that
\* occur more than once, each once, in the order of their first occurrence
RECURSIVE Duplicates(_, _)
Duplicates(ids, i) ==
    IF i > Len(ids) THEN <<>>
    ELSE LET first == \A j \in 1..(i - 1) : ids[j] # ids[i]
             again == \E j \in (i + 1)..Len(ids) : ids[j] = ids[i]
         IN  (IF first /\ again THEN <<ids[i]>> ELSE <<>>) \o Duplicates(ids, i + 1)

RECURSIVE ReprStrs(_, _)
\* the inside of the repr of a list of str
ReprStrs(ids, i) ==
    IF i > Len(ids) THEN ""
    ELSE "'" \o ids[i] \o "'" \o (IF i < Len(ids) THEN ", " ELSE "") \o ReprStrs(ids, i + 1)
ReprStrList(ids) == "[" \o ReprStrs(ids, 1) \o "]"

\* the message of the AssertionError (its backquotes left out)
MsgMustBeUnique(duplicates) ==
    "step_config_id must be unique. The following step_config_id are duplicated: "
        \o ReprStrList(duplicates)

\* a validator that reports the first duplicated id only
assert_step_config_ids_are_unique_first_only(inp) ==
    LET res == get_step_config_ids(inp) IN
    IF res.status = "raise" THEN res
    ELSE IF Cardinality({res.value[i] : i \in 1..Len(res.value)}) # Len(inp.items)
    THEN Raise("AssertionError", MsgMustBeUnique(SubSeq(Duplicates(res.value, 1), 1, 1)))
    ELSE Return(None)

assert_step_config_ids_are_unique(inp) ==
    LET res == get_step_config_ids(inp) IN
    IF res.status = "raise" THEN res
    ELSE LET step_config_ids == res.value IN
         IF Cardinality({step_config_ids[i] : i \in 1..Len(step_config_ids)}) # Len(inp.items)
         THEN Raise("AssertionError", MsgMustBeUnique(Duplicates(step_config_ids, 1)))
         ELSE Return(None)

\* step configs with ids "1", "2", "3" and the bare string "val"
IdElems ==
    {StepConfigB("1"), StepConfigB("2"), StepConfigB("3"),
     StepConfigA("2", "abc"), PyStr("val")}

InitIds ==
    /\ idIn \in {[kind |-> kind, items |-> items] :
                    kind \in {"list", "iterator"},
                    items \in SeqsUpTo(IdElems, MaxIdElems)}
    /\ idsResult = None
    /\ uqResult = None

IdleIds ==
    /\ idIn = None
    /\ idsResult = None
    /\ uqResult = None

\* res = get_step_config_ids(step_configs)
GetStepConfigIds ==
    /\ idIn # None
    /\ idsResult = None
    /\ idsResult' = get_step_config_ids(idIn)
    /\ UNCHANGED <<idIn, uqResult>>
    /\ UNCHANGED <<hydVars, lkVars, taskVars, genVars, allVars, runVars, bundleVars, copyVars, subVars, heapVars, readmeVars>>

\* assert_step_config_ids_are_unique(inp), inp a Collection
AssertStepConfigIdsAreUnique ==
    /\ idIn # None
    /\ idIn.kind = "list"
    /\ uqResult = None
    /\ uqResult' = assert_step_config_ids_are_unique(idIn)
    /\ UNCHANGED <<idIn, idsResult>>
    /\ UNCHANGED <<hydVars, lkVars, taskVars, genVars, allVars, runVars, bundleVars, copyVars, subVars, heapVars, readmeVars>>

(***************************************************************************)
(* generate_all_tasks                                                      *)
(***************************************************************************)
\* the gen_zenodo_bundle_task of the tests: a task that keeps what it was given
GenZenodoBundleTask(all_previous_tasks) ==
    [basename |-> "Zenodo bundle", name |-> "Zenodo bundle generation",
     previous_tasks |-> all_previous_tasks]

\* a resumption that forgets to record the task it had yielded
AfterYield_forgets(tasks, task) == tasks

\* notebook_tasks.append(task), run when the generator is resumed after
\* yield task
AfterYield(tasks, task) == Append(tasks, task)

RECURSIVE AllAdvance(_, _, _, _)
\* the two for loops from the s-th step on, t tasks of it already taken, up
\* to the next yield; after the last step the bundle task is built and yielded
AllAdvance(in, s, t, tasks) ==
    IF s > Len(in.steps)
    THEN [kind |-> "yield", item |-> GenZenodoBundleTask(tasks),
          pc |-> [at |-> "bundle"], tasks |-> tasks, zenodo |-> <<tasks>>]
    ELSE IF t < Len(in.steps[s])
    THEN [kind |-> "yield", item |-> in.steps[s][t + 1],
          pc |-> [at |-> "task", s |-> s, t |-> t + 1], tasks |-> tasks, zenodo |-> <<>>]
    ELSE IF in.raising = s
    THEN [kind |-> "raise", tasks |-> tasks, zenodo |-> <<>>]
    ELSE AllAdvance(in, s + 1, 0, tasks)

\* one next() on the generator of generate_all_tasks suspended at pc
AllResume(in, pc, tasks) ==
    CASE pc.at = "start" -> AllAdvance(in, 1, 0, tasks)
      [] pc.at = "task" ->
            AllAdvance(in, pc.s, pc.t, AfterYield(tasks, in.steps[pc.s][pc.t]))
      [] pc.at = "bundle" -> [kind |-> "stop", tasks |-> tasks, zenodo |-> <<>>]

\* the tasks the step generators yield
StepTasks ==
    {[basename |-> "(0xx_first/001_first) First notebook", name |-> "only"],
     [basename |-> "(1xx_second/111_step) Second notebook", name |-> "solo"]}

\* steps[s] is what the generator of the s-th step yields; the generator of
\* step number raising ends with an exception instead of returning
InitAll ==
    /\ aIn \in {[steps |-> steps, raising |-> raising] :
                    steps \in SeqsUpTo(SeqsUpTo(StepTasks, MaxStepTasks), MaxSteps),
                    raising \in 0..MaxSteps}
    /\ aIn.raising <= Len(aIn.steps)
    /\ apc = [at |-> "start"]
    /\ notebook_tasks = <<>>
    /\ aYielded = <<>>
    /\ zCalls = <<>>

IdleAll ==
    /\ aIn = None
    /\ apc = [at |-> "idle"]
    /\ notebook_tasks = <<>>
    /\ aYielded = <<>>
    /\ zCalls = <<>>

AllSuspended == apc.at \in {"start", "task", "bundle"}

\* next(generator) that yields a task of a step
AllNextStepTask ==
    /\ AllSuspended
    /\ LET o == AllResume(aIn, apc, notebook_tasks) IN
        /\ o.kind = "yield"
        /\ o.pc.at = "task"
        /\ aYielded' = Append(aYielded, o.item)
        /\ apc' = o.pc
        /\ notebook_tasks' = o.tasks
        /\ zCalls' = zCalls \o o.zenodo
    /\ UNCHANGED aIn
    /\ UNCHANGED <<hydVars, lkVars, taskVars, genVars, idVars, runVars, bundleVars, copyVars, subVars, heapVars, readmeVars>>

\* next(generator) that calls gen_zenodo_bundle_task and yields its result
AllNextBundleTask ==
    /\ AllSuspended
    /\ LET o == AllResume(aIn, apc, notebook_tasks) IN
        /\ o.kind = "yield"
        /\ o.pc.at = "bundle"
        /\ aYielded' = Append(aYielded, o.item)
        /\ apc' = o.pc
        /\ notebook_tasks' = o.tasks
        /\ zCalls' = zCalls \o o.zenodo
    /\ UNCHANGED aIn
    /\ UNCHANGED <<hydVars, lkVars, taskVars, genVars, idVars, runVars, bundleVars, copyVars, subVars, heapVars, readmeVars>>

\* next(generator) in which a step's generator raises
AllNextRaises ==
    /\ AllSuspended
    /\ LET o == AllResume(aIn, apc, notebook_tasks) IN
        /\ o.kind = "raise"
        /\ apc' = [at |-> "raised"]
        /\ notebook_tasks' = o.tasks
    /\ UNCHANGED <<aIn, aYielded, zCalls>>
    /\ UNCHANGED <<hydVars, lkVars, taskVars, genVars, idVars, runVars, bundleVars, copyVars, subVars, heapVars, readmeVars>>

\* next(generator) that finds the generator exhausted
AllNextStops ==
    /\ AllSuspended
    /\ LET o == AllResume(aIn, apc, notebook_tasks) IN
        /\ o.kind = "stop"
        /\ apc' = [at |-> "done"]
    /\ UNCHANGED <<aIn, notebook_tasks, aYielded, zCalls>>
    /\ UNCHANGED <<hydVars, lkVars, taskVars, genVars, idVars, runVars, bundleVars, copyVars, subVars, heapVars, readmeVars>>

(***************************************************************************)
(* run_notebook                                                            *)
(***************************************************************************)
\* Python3 minor version in which add_note was introduced
PYTHON_ADD_NOTE_INTRODUCED == 11

\* an exception raised by a collaborator
PyException(cls, text) == [cls |-> cls, text |-> text, notes |-> <<>>, cause |-> None]

\* NotebookExecutionException(exc, filename) under Python 3.<minor>: the note
\* is added where add_note exists; args is (exc,)
NotebookExecutionException(exc, filename, minor) ==
    [cls |-> "NotebookExecutionException",
     text |-> exc.text,
     notes |-> IF minor >= PYTHON_ADD_NOTE_INTRODUCED
               THEN <<PathStr(filename) \o " failed to execute. Original exception: " \o exc.text>>
               ELSE <<>>,
     cause |-> None]

\* raise exception from cause
RaiseFrom(exception, cause) ==
    [status |-> "raise", exception |-> [exception EXCEPT !.cause = cause]]
\* an exception that leaves the function inside a NotebookExecutionException
Propagate_wrapped(exception) ==
    [status |-> "raise",
     exception |-> [cls |-> "NotebookExecutionException", text |-> exception.text,
                    notes |-> <<>>, cause |-> exception]]
\* an exception that leaves the function as it is
Propagate(exception) == [status |-> "raise", exception |-> exception]

\* an except clause that lets the exception through
Wrapped_not(in, exc) == Propagate(exc)

\* except Exception as exc: raise NotebookExecutionException(exc, unexecuted_notebook) from exc
Wrapped(in, exc) ==
    RaiseFrom(NotebookExecutionException(exc, in.unexecuted_notebook, in.minor), exc)

\* parameters handed on as they were given
ParametersOrEmpty_as_given(notebook_parameters) == notebook_parameters
\* if notebook_parameters is None: notebook_parameters = {}
ParametersOrEmpty(notebook_parameters) ==
    IF notebook_parameters = None THEN PyDict(<<>>) ELSE notebook_parameters
\* if notebook_rewriter is None: notebook_rewriter = rewrite_notebook_default
RewriterOrDefault(notebook_rewriter) ==
    IF notebook_rewriter = None THEN "rewrite_notebook_default" ELSE notebook_rewriter.s
\* if notebook_executor is None: notebook_executor = papermill.execute_notebook
ExecutorOrDefault(notebook_executor) ==
    IF notebook_executor = None THEN "papermill.execute_notebook" ELSE notebook_executor.s

\* executed_notebook.parent
PathParent(p) ==
    IF p.parts = <<>> THEN p ELSE PyPath(p.abs, SubSeq(p.parts, 1, Len(p.parts) - 1))

\* an executor call that is made again when it has failed
ExecutorCalls_retry(in) ==
    LET call == [callee |-> ExecutorOrDefault(in.notebook_executor),
                 args |-> <<in.unexecuted_notebook, in.executed_notebook,
                            ParametersOrEmpty(in.notebook_parameters)>>]
    IN  IF in.executor_raises = None THEN <<call>> ELSE <<call, call>>

\* notebook_executor(unexecuted_notebook, executed_notebook, notebook_parameters)
ExecutorCalls(in) ==
    << [callee |-> ExecutorOrDefault(in.notebook_executor),
        args |-> <<in.unexecuted_notebook, in.executed_notebook,
                   ParametersOrEmpty(in.notebook_parameters)>>] >>

RunRawNotebook == PyPath(TRUE, <<"Path", "to", "base_notebook">>)
RunUnexecutedNotebook == PyPath(TRUE, <<"TO", "unexecuted", "notebook.ipynb">>)
RunExecutedNotebook == PyPath(TRUE, <<"tmp", "executed", "notebook.ipynb">>)

\* *_raises is the exception the collaborator will raise, None if it returns;
\* rewriter_makes_parent says whether the rewriter leaves the directory of the
\* executed notebook behind, as rewrite_notebook_default does with its
\* unexecuted_notebook.parent.mkdir when the two notebooks share a directory
InitRun ==
    /\ rIn \in {[raw_notebook |-> RunRawNotebook,
                  unexecuted_notebook |-> RunUnexecutedNotebook,
                  executed_notebook |-> RunExecutedNotebook,
                  notebook_parameters |-> notebook_parameters,
                  notebook_rewriter |-> notebook_rewriter,
                  notebook_executor |-> notebook_executor,
                  rewriter_raises |-> rewriter_raises,
                  rewriter_makes_parent |-> rewriter_makes_parent,
                  mkdir_raises |-> mkdir_raises,
                  executor_raises |-> executor_raises,
                  minor |-> minor] :
                    notebook_parameters \in {None, PyDict(<< <<PyStr("a"), PyInt(3)>> >>)},
                    notebook_rewriter \in {None, PyStr("notebook_rewriter")},
                    notebook_executor \in {None, PyStr("notebook_executor")},
                    rewriter_raises \in {None, PyException("FileNotFoundError", "no raw notebook")},
                    rewriter_makes_parent \in BOOLEAN,
                    mkdir_raises \in {None, PyException("PermissionError", "Permission denied")},
                    executor_raises \in {None, PyException("KeyError", "'Some info here'")},
                    minor \in {PYTHON_ADD_NOTE_INTRODUCED - 1, PYTHON_ADD_NOTE_INTRODUCED}}
    /\ rpc = "start"
    /\ rCalls = <<>>
    /\ rParentExists \in BOOLEAN
    /\ rResult = None

IdleRun ==
    /\ rIn = None
    /\ rpc = "idle"
    /\ rCalls = <<>>
    /\ rParentExists = FALSE
    /\ rResult = None

\* notebook_rewriter(raw_notebook, unexecuted_notebook), outside the try
RunRewrite ==
    /\ rpc = "start"
    /\ rCalls' = Append(rCalls, [callee |-> RewriterOrDefault(rIn.notebook_rewriter),
                                  args |-> <<rIn.raw_notebook, rIn.unexecuted_notebook>>])
    /\ IF rIn.rewriter_raises = None
       THEN rpc' = "rewritten" /\ rResult' = rResult
       ELSE rpc' = "raised" /\ rResult' = Propagate(rIn.rewriter_raises)
    /\ rParentExists' = (rParentExists \/ rIn.rewriter_makes_parent)
    /\ UNCHANGED rIn
    /\ UNCHANGED <<hydVars, lkVars, taskVars, genVars, idVars, allVars, bundleVars, copyVars, subVars, heapVars, readmeVars>>

\* if not executed_notebook.parent.exists(): executed_notebook.parent.mkdir(...)
RunMakeParent ==
    /\ rpc = "rewritten"
    /\ IF rParentExists
       THEN rpc' = "prepared" /\ UNCHANGED <<rCalls, rParentExists, rResult>>
       ELSE /\ rCalls' = Append(rCalls, [callee |-> "mkdir",
                                          args |-> <<PathParent(rIn.executed_notebook)>>])
            /\ IF rIn.mkdir_raises = None
               THEN rpc' = "prepared" /\ rParentExists' = TRUE /\ rResult' = rResult
               ELSE /\ rpc' = "raised"
                    /\ rParentExists' = rParentExists
                    /\ rResult' = Wrapped(rIn, rIn.mkdir_raises)
    /\ UNCHANGED rIn
    /\ UNCHANGED <<hydVars, lkVars, taskVars, genVars, idVars, allVars, bundleVars, copyVars, subVars, heapVars, readmeVars>>

\* notebook_executor(...) inside the try, then the implicit return None
RunExecute ==
    /\ rpc = "prepared"
    /\ rCalls' = rCalls \o ExecutorCalls(rIn)
    /\ IF rIn.executor_raises = None
       THEN rpc' = "done" /\ rResult' = Return(None)
       ELSE rpc' = "raised" /\ rResult' = Wrapped(rIn, rIn.executor_raises)
    /\ UNCHANGED <<rIn, rParentExists>>
    /\ UNCHANGED <<hydVars, lkVars, taskVars, genVars, idVars, allVars, bundleVars, copyVars, subVars, heapVars, readmeVars>>

(***************************************************************************)
(* load_hydrate_write_config_bundle (config_handling.py) with the default  *)
(* yaml converter and the file helpers of serialization.py.                *)
(***************************************************************************)
\* what the converter makes of a value before it becomes yaml text: an attrs
\* instance is a mapping of its fields, a Path its str, a tuple a sequence
RECURSIVE Unstructure(_)
Unstructure(value) ==
    IF value.k = "path" THEN PyStr(PathStr(value))
    ELSE IF value.k \in {"list", "tuple"}
    THEN PyList([i \in 1..Len(value.v) |-> Unstructure(value.v[i])])
    ELSE IF value.k = "dict"
    THEN PyDict([i \in 1..Len(value.kv) |->
                    <<Unstructure(value.kv[i][1]), Unstructure(value.kv[i][2])>>])
    ELSE IF value.k = "attrs"
    THEN PyDict([i \in 1..Len(value.f) |->
                    <<PyStr(value.f[i][1]), Unstructure(value.f[i][2])>>])
    ELSE value

\* the declared type of a field, read off a value of the class as it was
\* declared (the target handed to converter.loads)
RECURSIVE TypeOf(_)
TypeOf(value) ==
    IF value.k \in {"list", "tuple"}
    THEN [t |-> value.k,
          of |-> IF value.v = <<>> THEN [t |-> "any"] ELSE TypeOf(value.v[1])]
    ELSE IF value.k = "dict"
    THEN [t |-> "dict",
          key |-> IF value.kv = <<>> THEN [t |-> "any"] ELSE TypeOf(value.kv[1][1]),
          val |-> IF value.kv = <<>> THEN [t |-> "any"] ELSE TypeOf(value.kv[1][2])]
    ELSE IF value.k = "attrs"
    THEN [t |-> "attrs", cls |-> value.cls,
          fields |-> [i \in 1..Len(value.f) |-> <<value.f[i][1], TypeOf(value.f[i][2])>>]]
    ELSE [t |-> value.k]

\* the input files of the runs and the directories the runs write into
BundleSourceFiles == {PyPath(TRUE, <<"source", "config.yaml">>), PyPath(TRUE, <<"P", "config.yaml">>)}
BundleRoots == {AbsP, PyPath(TRUE, <<"output-bundle">>)}
BundlePathValues == {RelA, AbsPA}
KnownPaths == BundlePathValues \cup {PathJoin(r, p) : r \in BundleRoots, p \in BundlePathValues}

\* Path(s)
ParsePath(s) == CHOOSE p \in KnownPaths : PathStr(p) = s

\* converter.structure(unstructured, target)
RECURSIVE Structure(_, _)
Structure(u, target) ==
    IF target.t = "path" THEN ParsePath(u.s)
    ELSE IF target.t = "list"
    THEN PyList([i \in 1..Len(u.v) |-> Structure(u.v[i], target.of)])
    ELSE IF target.t = "tuple"
    THEN PyTuple([i \in 1..Len(u.v) |-> Structure(u.v[i], target.of)])
    ELSE IF target.t = "dict"
    THEN PyDict([i \in 1..Len(u.kv) |->
                    <<Structure(u.kv[i][1], target.key), Structure(u.kv[i][2], target.val)>>])
    ELSE IF target.t = "attrs"
    THEN Attrs(target.cls, [i \in 1..Len(target.fields) |->
                    <<target.fields[i][1], Structure(u.kv[i][2], target.fields[i][2])>>])
    ELSE u

\* converter.loads(text, target): the text holds the unstructured form of
\* what was dumped
Loads(text, target) == Structure(Unstructure(text.dumps), target)

\* a path of the file system that holds no file
Absent == [absent |-> TRUE]

\* with open(config_file) as fh: config = converter.loads(fh.read(), target)
load_config_from_file(files, config_file, target) == Loads(files[config_file], target)

\* create_cb of the test: the bundle record
ConfigBundle(config_hydrated, config_hydrated_path, root_dir_output_run, run_id) ==
    Attrs("ConfigBundleA", << <<"config_hydrated", config_hydrated>>, <<"config_hydrated_path", config_hydrated_path>>, <<"root_dir_output_run", root_dir_output_run>>, <<"run_id", PyStr(run_id)>> >>)

\* configuration_file.name as a path
NameOf(p) == PyPath(FALSE, <<PathName(p)>>)

\* root_dir_output_run / configuration_file.name
ConfigHydratedPath(in) == PathJoin(in.root_dir_output_run, NameOf(in.configuration_file))

\* write_path = config_bundle.config_hydrated_path;
\* fh.write(converter.dumps(config_bundle.config_hydrated))
write_config_in_config_bundle_to_disk(files, config_bundle) ==
    [files EXCEPT ![GetAttr(config_bundle, "config_hydrated_path")] =
        Dumps(GetAttr(config_bundle, "config_hydrated"), FALSE)]

BundleFiles == BundleSourceFiles \cup {PathJoin(r, NameOf(f)) : r \in BundleRoots, f \in BundleSourceFiles}

BundleFieldValues ==
    BundlePathValues \cup {PyStr("s")}
    \cup {PyList(v) : v \in SeqsUpTo({RelA, AbsPA}, MaxLen) \ {<<>>}}
    \cup {PyTuple(<<RelA>>)}
    \cup {PyDict(<< <<PyStr("s"), RelA>> >>)}
    \cup {PyList(<<StepConfig("only", RelA)>>)}

\* the test's set-up: the configuration was dumped into configuration_file
InitBundle ==
    /\ \E c \in {Config(v) : v \in BundleFieldValues}, f \in BundleSourceFiles, r \in BundleRoots :
          /\ bIn = [configuration_file |-> f, root_dir_output_run |-> r,
                    written_config |-> c, target |-> TypeOf(c), run_id |-> "run"]
          /\ bFiles = [p \in BundleFiles |-> IF p = f THEN Dumps(c, FALSE) ELSE Absent]
    /\ bpc = "start"
    /\ bConfig = None
    /\ bBundle = None
    /\ bCalls = <<>>
    /\ bWrites = <<>>
    /\ bResult = None

IdleBundle ==
    /\ bIn = None
    /\ bFiles = <<>>
    /\ bpc = "idle"
    /\ bConfig = None
    /\ bBundle = None
    /\ bCalls = <<>>
    /\ bWrites = <<>>
    /\ bResult = None

\* config = load_configuration_file(configuration_file)
BundleLoad ==
    /\ bpc = "start"
    /\ bConfig' = load_config_from_file(bFiles, bIn.configuration_file, bIn.target)
    /\ bCalls' = Append(bCalls, [callee |-> "load_configuration_file", args |-> <<bIn.configuration_file>>])
    /\ bpc' = "loaded"
    /\ UNCHANGED <<bIn, bFiles, bBundle, bWrites, bResult>>
    /\ UNCHANGED <<hydVars, lkVars, taskVars, genVars, idVars, allVars, runVars, copyVars, subVars, heapVars, readmeVars>>

\* config = insert_path_prefix(config, prefix=root_dir_output_run)
BundleHydrate ==
    /\ bpc = "loaded"
    /\ bConfig' = insert_path_prefix(bConfig, bIn.root_dir_output_run)
    /\ bCalls' = Append(bCalls, [callee |-> "insert_path_prefix", args |-> <<bConfig, bIn.root_dir_output_run>>])
    /\ bpc' = "hydrated"
    /\ UNCHANGED <<bIn, bFiles, bBundle, bWrites, bResult>>
    /\ UNCHANGED <<hydVars, lkVars, taskVars, genVars, idVars, allVars, runVars, copyVars, subVars, heapVars, readmeVars>>

\* config_bundle = create_config_bundle(config_hydrated=config, ...)
BundleCreate ==
    /\ bpc = "hydrated"
    /\ bBundle' = ConfigBundle(bConfig, ConfigHydratedPath(bIn), bIn.root_dir_output_run, bIn.run_id)
    /\ bCalls' = Append(bCalls, [callee |-> "create_config_bundle", args |-> <<bConfig, ConfigHydratedPath(bIn), bIn.root_dir_output_run>>])
    /\ bpc' = "created"
    /\ UNCHANGED <<bIn, bFiles, bConfig, bWrites, bResult>>
    /\ UNCHANGED <<hydVars, lkVars, taskVars, genVars, idVars, allVars, runVars, copyVars, subVars, heapVars, readmeVars>>

\* write_config_in_config_bundle_to_disk(config_bundle=config_bundle,
\* converter=converter); return config_bundle
BundleWrite ==
    /\ bpc = "created"
    /\ bFiles' = write_config_in_config_bundle_to_disk(bFiles, bBundle)
    /\ bWrites' = Append(bWrites, GetAttr(bBundle, "config_hydrated_path"))
    /\ bCalls' = Append(bCalls, [callee |-> "write_config_in_config_bundle_to_disk", args |-> <<bBundle>>])
    /\ bResult' = Return(bBundle)
    /\ bpc' = "returned"
    /\ UNCHANGED <<bIn, bConfig, bBundle>>
    /\ UNCHANGED <<hydVars, lkVars, taskVars, genVars, idVars, allVars, runVars, copyVars, subVars, heapVars, readmeVars>>

(***************************************************************************)
(* gen_copy_source_into_output_tasks (tasks_copy_source.py): a generator,  *)
(* one action per next().                                                  *)
(***************************************************************************)
\* Path.is_relative_to
IsRelativeTo(p, base) ==
    /\ p.abs = base.abs
    /\ Len(base.parts) <= Len(p.parts)
    /\ SubSeq(p.parts, 1, Len(base.parts)) = base.parts

\* Path.relative_to: the path below base, a ValueError otherwise
RelativeTo(p, base) ==
    IF IsRelativeTo(p, base)
    THEN Return(PyPath(FALSE, SubSeq(p.parts, Len(base.parts) + 1, Len(p.parts))))
    ELSE Raise("ValueError", PathStr(p) \o " is not in the subpath of " \o PathStr(base))

\* the files named in other_files_to_copy, as str or as Path
OtherFiles ==
    {PyStr("dodo.py"), PyPath(FALSE, <<"subfolder", "file.txt">>),
     PyPath(TRUE, <<"absolute", "somewhere.txt">>), PyStr("/absolute/text.txt")}
OtherFilePaths ==
    {PyPath(FALSE, <<"dodo.py">>), PyPath(TRUE, <<"absolute", "text.txt">>)}

\* Path(file) for a str, the Path itself otherwise
AsPath(file) ==
    IF file.k = "path" THEN file ELSE CHOOSE p \in OtherFilePaths : PathStr(p) = file.s

\* f"{file}"
FileStr(file) == IF file.k = "path" THEN PathStr(file) ELSE file.s

\* ActionDef(name, action, targets)
ActionDef(name, callable, args, targets) ==
    [name |-> name, action |-> [callable |-> callable, args |-> args, kwargs |-> <<>>], targets |-> targets]

MsgIsAbsolute(file) ==
    FileStr(file) \o " is absolute. "
    \o "other_files_to_copy must not contain absolute paths "
    \o "(all paths are assumed to be relative to repo_root_dir)."

\* if isinstance(file, Path):
FileIsChecked(file) == file.k = "path"

RECURSIVE CopyFileLoop(_, _, _, _, _)
CopyFileLoop(repo_root_dir, root_dir_output_run, files, copy_file, acc) ==
    IF files = <<>> THEN Return(acc)
    ELSE LET file == Head(files) IN
         IF FileIsChecked(file) /\ AsPath(file).abs
         THEN Raise("ValueError", MsgIsAbsolute(file))
         ELSE CopyFileLoop(repo_root_dir, root_dir_output_run, Tail(files), copy_file,
                  Append(acc, ActionDef("copy " \o FileStr(file), copy_file,
                                        <<PathJoin(repo_root_dir, AsPath(file)),
                                          PathJoin(root_dir_output_run, AsPath(file))>>,
                                        <<PathJoin(root_dir_output_run, AsPath(file))>>)))

get_copy_file_action_definitions(repo_root_dir, root_dir_output_run, other_files_to_copy, copy_file) ==
    CopyFileLoop(repo_root_dir, root_dir_output_run, other_files_to_copy, copy_file, <<>>)

\* all_targets: the targets of the preceding tasks that have any, the last
\* task's only
RECURSIVE AllTargets_last_only(_)
AllTargets_last_only(tasks) ==
    IF tasks = <<>> THEN <<>>
    ELSE IF "targets" \in DOMAIN tasks[Len(tasks)] THEN tasks[Len(tasks)].targets
    ELSE AllTargets_last_only(SubSeq(tasks, 1, Len(tasks) - 1))

\* all_targets = []; for task in all_preceeding_tasks:
\*     if "targets" in task: all_targets.extend(task["targets"])
RECURSIVE AllTargets(_)
AllTargets(tasks) ==
    IF tasks = <<>> THEN <<>>
    ELSE (IF "targets" \in DOMAIN Head(tasks) THEN Head(tasks).targets ELSE <<>>)
         \o AllTargets(Tail(tasks))

\* stem and suffix of the names configuration files have here
FileStem(name) == IF name = "config.yaml" THEN "config" ELSE name
FileSuffix(name) == IF name = "config.yaml" THEN ".yaml" ELSE ""

\* root_dir_output_run / f"{config_file_raw.stem}-raw{config_file_raw.suffix}"
ConfigFileRawOutput(in) ==
    PathJoin(in.root_dir_output_run,
             PyPath(FALSE, <<FileStem(PathName(in.config_file_raw)) \o "-raw" \o FileSuffix(PathName(in.config_file_raw))>>))

\* dir / name for a name given as str
Under(dir, name) == PathJoin(dir, PyPath(FALSE, <<name>>))

\* the callables, the defaults where None was given
CopyCallable(given, default) == IF given = None THEN default ELSE given.s

\* lines 210-284: the list action_defs, or the exception raised on the way
ActionDefs(in) ==
    LET raw_nb == RelativeTo(in.root_dir_raw_notebooks, in.repo_root_dir)
        copy_file == CopyCallable(in.copy_file, "copy_file_default")
        copy_tree == CopyCallable(in.copy_tree, "copy_tree_default")
        others == get_copy_file_action_definitions(in.repo_root_dir, in.root_dir_output_run, in.other_files_to_copy, copy_file)
    IN  IF raw_nb.status = "raise" THEN raw_nb
        ELSE IF others.status = "raise" THEN others
        ELSE LET output_dir_raw_notebooks == PathJoin(in.root_dir_output_run, raw_nb.value)
                 config_file_raw_output == ConfigFileRawOutput(in)
             IN Return(
                 << ActionDef("copy README", CopyCallable(in.copy_readme, "copy_readme_default"),
                              <<Under(in.repo_root_dir, in.readme), Under(in.root_dir_output_run, in.readme),
                                PyStr(in.run_id),
                                RelativeTo(config_file_raw_output, in.root_dir_output_run).value>>,
                              <<Under(in.root_dir_output_run, in.readme)>>),
                    ActionDef("copy Zenodo", CopyCallable(in.copy_zenodo, "copy_zenodo_default"),
                              <<Under(in.repo_root_dir, in.zenodo), Under(in.root_dir_output_run, in.zenodo),
                                PyStr(in.run_id)>>,
                              <<Under(in.root_dir_output_run, in.zenodo)>>) >>
                 \o others.value
                 \o << ActionDef("copy raw config", copy_file,
                              <<in.config_file_raw, config_file_raw_output>>,
                              <<config_file_raw_output>>),
                    ActionDef("copy raw notebooks", copy_tree,
                              <<in.root_dir_raw_notebooks, output_dir_raw_notebooks>>,
                              <<output_dir_raw_notebooks>>),
                    ActionDef("copy source", copy_tree,
                              <<Under(in.repo_root_dir, in.src_dir), Under(in.root_dir_output_run, in.src_dir)>>,
                              <<Under(in.root_dir_output_run, in.src_dir)>>) >>)

\* tuple(f".../{t.name}" for t in action_def.targets), as the f-string shows it
CreatedFilesShort(targets) == "('.../" \o PathName(targets[1]) \o "',)"

CopyBaseDoc ==
    "Copy required source files into the output directory, making it "
    \o "easy to create a neat bundle for uploading to Zenodo"

\* the record yielded for one action definition (lines 287-295)
CopyTask(in, action_def) ==
    [basename |-> "copy_source_into_output",
     doc |-> CopyBaseDoc \o ". Copying in " \o CreatedFilesShort(action_def.targets),
     name |-> action_def.name,
     actions |-> <<action_def.action>>,
     targets |-> action_def.targets,
     file_dep |-> AllTargets(in.all_preceeding_tasks)]

Targets1 == <<PyPath(TRUE, <<"to", "somewhere">>), PyPath(TRUE, <<"to", "other.txt">>)>>
Targets2 == <<PyPath(TRUE, <<"hi", "there.csv">>)>>
PrecedingTasks ==
    {[tasK |-> "with no targets"], [task |-> "name", targets |-> Targets1],
     [task |-> "other-name", targets |-> Targets2, dependencies |-> <<"a", "b">>]}
RepoRootDir == PyPath(TRUE, <<"to", "repo", "root">>)

InitCopy ==
    /\ \E tasks \in SeqsUpTo(PrecedingTasks, MaxPreceding),
          others \in SeqsUpTo(OtherFiles, MaxOtherFiles),
          nbs \in {Under(RepoRootDir, "notebooks"), PyPath(TRUE, <<"elsewhere", "notebooks">>)},
          given \in {None, PyStr("copy-test")} :
          cIn = [all_preceeding_tasks |-> tasks,
                 repo_root_dir |-> RepoRootDir,
                 root_dir_output_run |-> PyPath(TRUE, <<"to", "repo", "output", "id">>),
                 run_id |-> "run",
                 root_dir_raw_notebooks |-> nbs,
                 config_file_raw |-> Under(RepoRootDir, "config.yaml"),
                 readme |-> "README.md", zenodo |-> "zenodo.json",
                 other_files_to_copy |-> others, src_dir |-> "src",
                 copy_readme |-> given, copy_zenodo |-> given,
                 copy_file |-> given, copy_tree |-> given]
    /\ cpc = [at |-> "start", i |-> 0]
    /\ cYielded = <<>>
    /\ cErr = None

IdleCopy ==
    /\ cIn = None
    /\ cpc = [at |-> "idle", i |-> 0]
    /\ cYielded = <<>>
    /\ cErr = None

\* the position of the next action definition to yield
CopyNextIndex == IF cpc.at = "start" THEN 1 ELSE cpc.i + 1

\* next() reaches the yield of line 288
CopyNextTask ==
    /\ cpc.at \in {"start", "yielded"}
    /\ ActionDefs(cIn).status = "return"
    /\ CopyNextIndex <= Len(ActionDefs(cIn).value)
    /\ cYielded' = Append(cYielded, CopyTask(cIn, ActionDefs(cIn).value[CopyNextIndex]))
    /\ cpc' = [at |-> "yielded", i |-> CopyNextIndex]
    /\ UNCHANGED <<cIn, cErr>>
    /\ UNCHANGED <<hydVars, lkVars, taskVars, genVars, idVars, allVars, runVars, bundleVars, subVars, heapVars, readmeVars>>

\* the first next() raises before it reaches a yield
CopyNextRaises ==
    /\ cpc.at = "start"
    /\ ActionDefs(cIn).status = "raise"
    /\ cErr' = ActionDefs(cIn)
    /\ cpc' = [at |-> "raised", i |-> 0]
    /\ UNCHANGED <<cIn, cYielded>>
    /\ UNCHANGED <<hydVars, lkVars, taskVars, genVars, idVars, allVars, runVars, bundleVars, subVars, heapVars, readmeVars>>

\* next() after the last action definition: StopIteration
CopyNextStops ==
    /\ cpc.at = "yielded"
    /\ cpc.i = Len(ActionDefs(cIn).value)
    /\ cpc' = [at |-> "done", i |-> cpc.i]
    /\ UNCHANGED <<cIn, cYielded, cErr>>
    /\ UNCHANGED <<hydVars, lkVars, taskVars, genVars, idVars, allVars, runVars, bundleVars, subVars, heapVars, readmeVars>>

(***************************************************************************)
(* assert_path_is_subdirectory_of_root_dir_output (config_helpers.py)      *)
(***************************************************************************)
\* f"{attribute}": an attr.Attribute shows itself by its repr
AttributeStr(attribute) == "Attribute(name='" \o attribute.name \o "')"
\* f"{path!r}"
PathRepr(p) == "PosixPath('" \o PathStr(p) \o "')"

MsgNotSubDirectory(instance, attribute, value) ==
    AttributeStr(attribute) \o " is not a sub-directory of root_dir_output. "
    \o AttributeStr(attribute) \o "=" \o PathStr(value)
    \o ". root_dir_output=" \o PathRepr(instance.root_dir_output)

\* if not value.is_relative_to(instance.root_dir_output): raise AssertionError(msg)
assert_path_is_subdirectory_of_root_dir_output(instance, attribute, value) ==
    IF ~IsRelativeTo(value, instance.root_dir_output)
    THEN Propagate(PyException("AssertionError", MsgNotSubDirectory(instance, attribute, value)))
    ELSE Return(None)

SubDirNames == {"root", "dir", "else"}
SubPaths == {PyPath(abs, parts) : abs \in BOOLEAN, parts \in SeqsUpTo(SubDirNames, MaxLen)}
SubRoots == {PyPath(TRUE, <<"root">>), PyPath(TRUE, <<"root", "dir">>), PyPath(FALSE, <<"root">>)}
SubAttributes == {[name |-> "output_dir_run"], [name |-> "other_dir"]}

InitSub ==
    /\ \E root \in SubRoots, attribute \in SubAttributes, value \in SubPaths :
          vIn = [instance |-> [cls |-> "Config", root_dir_output |-> root],
                 attribute |-> attribute, value |-> value]
    /\ vResult = None

IdleSub ==
    /\ vIn = None
    /\ vResult = [status |-> "idle"]

\* one call of the validator
AssertPathIsSubdirectory ==
    /\ vResult = None
    /\ vResult' = assert_path_is_subdirectory_of_root_dir_output(vIn.instance, vIn.attribute, vIn.value)
    /\ UNCHANGED vIn
    /\ UNCHANGED <<hydVars, lkVars, taskVars, genVars, idVars, allVars, runVars, bundleVars, copyVars, heapVars, readmeVars>>

(***************************************************************************)
(* copy_readme_default (tasks_copy_source.py). A text is a sequence of     *)
(* pieces; one text is in another when its pieces are a run of pieces of   *)
(* the other.                                                              *)
(***************************************************************************)
\* needle in text
Contains(text, needle) ==
    \E i \in 0..(Len(text) - Len(needle)) : SubSeq(text, i + 1, i + Len(needle)) = needle

RECURSIVE JoinText(_)
JoinText(text) == IF text = <<>> THEN "" ELSE Head(text) \o JoinText(Tail(text))

\* raw_run_instruction: the default and one handed in
RawRunInstructionDefault == <<"poetry run doit run", " --verbosity=2">>
RawRunInstructionGiven == <<"python run-all.py">>

\* get_pydoit_nb_run_command_default
get_pydoit_nb_run_command_default(config_file_raw, raw_run_instruction) ==
    "DOIT_CONFIGURATION_FILE=" \o PathStr(config_file_raw) \o " " \o JoinText(raw_run_instruction)

\* the callable of the test: lambda x, y: f"injected {x} {y}"
RunCommand(get_pydoit_nb_run_command, config_file_raw, raw_run_instruction) ==
    IF get_pydoit_nb_run_command = None
    THEN get_pydoit_nb_run_command_default(config_file_raw, raw_run_instruction)
    ELSE "injected " \o PathStr(config_file_raw) \o " " \o JoinText(raw_run_instruction)

\* the footer, its fixed sentences shortened
Footer(in_path, run_id, command) ==
    "## Pydoit info: This README was created from the raw " \o PathName(in_path)
    \o " file as part of the '" \o run_id \o "' run. To re-run the analysis run: " \o command

MsgMustBeRelative(config_file_raw) ==
    "config_file_raw must be a relative path, received: " \o PathStr(config_file_raw)
MsgNoRunInstruction(raw_run_instruction) ==
    "Could not find expected run instructions in README. "
    \o "The injected run instructions probably won't be correct. "
    \o "Expected run instruction: " \o JoinText(raw_run_instruction)

\* the outcome of a call and the files it leaves
Outcome(result, files) == [result |-> result, files |-> files]

\* a version that opens out_path for writing before it has checked the README
copy_readme_default_writes_first(files, in_path, out_path, run_id, config_file_raw, raw_run_instruction, get_pydoit_nb_run_command) ==
    IF config_file_raw.abs
    THEN Outcome(Raise("ValueError", MsgMustBeRelative(config_file_raw)), files)
    ELSE IF files[in_path] = Absent
    THEN Outcome(Raise("FileNotFoundError", PathStr(in_path)), files)
    ELSE IF ~Contains(files[in_path].text, raw_run_instruction)
    THEN Outcome(Raise("AssertionError", MsgNoRunInstruction(raw_run_instruction)),
                 [files EXCEPT ![out_path] = [text |-> <<>>]])
    ELSE Outcome(Return(None),
                 [files EXCEPT ![out_path] =
                     [text |-> files[in_path].text
                               \o <<Footer(in_path, run_id, RunCommand(get_pydoit_nb_run_command, config_file_raw, raw_run_instruction))>>]])

copy_readme_default(files, in_path, out_path, run_id, config_file_raw, raw_run_instruction, get_pydoit_nb_run_command) ==
    IF config_file_raw.abs
    THEN Outcome(Raise("ValueError", MsgMustBeRelative(config_file_raw)), files)
    ELSE IF files[in_path] = Absent
    THEN Outcome(Raise("FileNotFoundError", PathStr(in_path)), files)
    ELSE IF ~Contains(files[in_path].text, raw_run_instruction)
    THEN Outcome(Raise("AssertionError", MsgNoRunInstruction(raw_run_instruction)), files)
    ELSE Outcome(Return(None),
                 [files EXCEPT ![out_path] =
                     [text |-> files[in_path].text
                               \o <<Footer(in_path, run_id, RunCommand(get_pydoit_nb_run_command, config_file_raw, raw_run_instruction))>>]])

ReadmePieces == {"# Test. ", "poetry run doit run", " --verbosity=2", "python run-all.py"}
ReadmeIn == PyPath(TRUE, <<"in", "README.md">>)
ReadmeOut == PyPath(TRUE, <<"out", "readme.txt">>)

InitReadme ==
    /\ \E out_path \in {ReadmeOut, ReadmeIn},
          config_file_raw \in {PyPath(FALSE, <<"config", "config_file_raw.yaml">>), PyPath(TRUE, <<"absolute", "location">>)},
          raw_run_instruction \in {RawRunInstructionDefault, RawRunInstructionGiven},
          get_pydoit_nb_run_command \in {None, PyStr("injected")} :
          mIn = [in_path |-> ReadmeIn, out_path |-> out_path, run_id |-> "test_copy_readme",
                 config_file_raw |-> config_file_raw,
                 raw_run_instruction |-> raw_run_instruction,
                 get_pydoit_nb_run_command |-> get_pydoit_nb_run_command]
    /\ \E readme \in {Absent} \cup {[text |-> t] : t \in SeqsUpTo(ReadmePieces, MaxReadme)},
          old \in {Absent, [text |-> <<"old">>]} :
          mFiles = [p \in {ReadmeIn, ReadmeOut} |-> IF p = ReadmeIn THEN readme ELSE old]
    /\ mFilesBefore = mFiles
    /\ mResult = None

IdleReadme ==
    /\ mIn = None
    /\ mFiles = <<>>
    /\ mFilesBefore = <<>>
    /\ mResult = None

\* one call copy_readme_default(in_path=..., out_path=..., ...)
CopyReadme ==
    /\ mIn # None
    /\ mResult = None
    /\ LET outcome == copy_readme_default(mFiles, mIn.in_path, mIn.out_path, mIn.run_id, mIn.config_file_raw, mIn.raw_run_instruction, mIn.get_pydoit_nb_run_command)
       IN  /\ mResult' = outcome.result
           /\ mFiles' = outcome.files
    /\ UNCHANGED <<mIn, mFilesBefore>>
    /\ UNCHANGED <<hydVars, lkVars, taskVars, genVars, idVars, allVars, runVars, bundleVars, copyVars, subVars, heapVars>>

(***************************************************************************)
(* Specifications: one per part of the library.                            *)
(***************************************************************************)
Init == InitHydrate /\ IdleLookup /\ IdleTask /\ IdleGen /\ IdleIds /\ IdleAll /\ IdleRun /\ IdleBundle /\ IdleCopy /\ IdleSub /\ IdleHeap /\ IdleReadme
Next == Hydrate \/ Rehydrate
Spec == Init /\ [][Next]_vars

InitSpecLookup == IdleHydrate /\ InitLookup /\ IdleTask /\ IdleGen /\ IdleIds /\ IdleAll /\ IdleRun /\ IdleBundle /\ IdleCopy /\ IdleSub /\ IdleHeap /\ IdleReadme
NextLookup == Lookup
SpecLookup == InitSpecLookup /\ [][NextLookup]_vars

InitSpecTask == IdleHydrate /\ IdleLookup /\ InitTask /\ IdleGen /\ IdleIds /\ IdleAll /\ IdleRun /\ IdleBundle /\ IdleCopy /\ IdleSub /\ IdleHeap /\ IdleReadme
NextTask == ToDoitTask
SpecTask == InitSpecTask /\ [][NextTask]_vars

InitSpecGen == IdleHydrate /\ IdleLookup /\ IdleTask /\ InitGen /\ IdleIds /\ IdleAll /\ IdleRun /\ IdleBundle /\ IdleCopy /\ IdleSub /\ IdleHeap /\ IdleReadme
NextGen == NextBaseTask \/ NextConfiguredTask \/ NextRaises \/ NextStops
SpecGen == InitSpecGen /\ [][NextGen]_vars

InitSpecIds == IdleHydrate /\ IdleLookup /\ IdleTask /\ IdleGen /\ InitIds /\ IdleAll /\ IdleRun /\ IdleBundle /\ IdleCopy /\ IdleSub /\ IdleHeap /\ IdleReadme
NextIds == GetStepConfigIds \/ AssertStepConfigIdsAreUnique
SpecIds == InitSpecIds /\ [][NextIds]_vars

InitSpecAll == IdleHydrate /\ IdleLookup /\ IdleTask /\ IdleGen /\ IdleIds /\ InitAll /\ IdleRun /\ IdleBundle /\ IdleCopy /\ IdleSub /\ IdleHeap /\ IdleReadme
NextAll == AllNextStepTask \/ AllNextBundleTask \/ AllNextRaises \/ AllNextStops
SpecAll == InitSpecAll /\ [][NextAll]_vars

InitSpecRun == IdleHydrate /\ IdleLookup /\ IdleTask /\ IdleGen /\ IdleIds /\ IdleAll /\ InitRun /\ IdleBundle /\ IdleCopy /\ IdleSub /\ IdleHeap /\ IdleReadme
NextRun == RunRewrite \/ RunMakeParent \/ RunExecute
SpecRun == InitSpecRun /\ [][NextRun]_vars

InitSpecBundle == IdleHydrate /\ IdleLookup /\ IdleTask /\ IdleGen /\ IdleIds /\ IdleAll /\ IdleRun /\ InitBundle /\ IdleCopy /\ IdleSub /\ IdleHeap /\ IdleReadme
NextBundle == BundleLoad \/ BundleHydrate \/ BundleCreate \/ BundleWrite
SpecBundle == InitSpecBundle /\ [][NextBundle]_vars

InitSpecCopy == IdleHydrate /\ IdleLookup /\ IdleTask /\ IdleGen /\ IdleIds /\ IdleAll /\ IdleRun /\ IdleBundle /\ InitCopy /\ IdleSub /\ IdleHeap /\ IdleReadme
NextCopy == CopyNextTask \/ CopyNextRaises \/ CopyNextStops
SpecCopy == InitSpecCopy /\ [][NextCopy]_vars

InitSpecSub == IdleHydrate /\ IdleLookup /\ IdleTask /\ IdleGen /\ IdleIds /\ IdleAll /\ IdleRun /\ IdleBundle /\ IdleCopy /\ InitSub /\ IdleHeap /\ IdleReadme
NextSub == AssertPathIsSubdirectory
SpecSub == InitSpecSub /\ [][NextSub]_vars

InitSpecHeap == IdleHydrate /\ IdleLookup /\ IdleTask /\ IdleGen /\ IdleIds /\ IdleAll /\ IdleRun /\ IdleBundle /\ IdleCopy /\ IdleSub /\ InitHeap /\ IdleReadme
NextHeap == ToDoitTaskAgain \/ ToDoitTaskOther
SpecHeap == InitSpecHeap /\ [][NextHeap]_vars

InitSpecReadme == IdleHydrate /\ IdleLookup /\ IdleTask /\ IdleGen /\ IdleIds /\ IdleAll /\ IdleRun /\ IdleBundle /\ IdleCopy /\ IdleSub /\ IdleHeap /\ InitReadme
NextReadme == CopyReadme
SpecReadme == InitSpecReadme /\ [][NextReadme]_vars

(***************************************************************************)
(* Properties of the hydration walk.                                       *)
(***************************************************************************)
FieldValue(rec, i) == rec.f[i][2]
FieldNames(rec) == [i \in 1..Len(rec.f) |-> rec.f[i][1]]

\* C1: the walk maps a record field holding a relative path p to prefix / p
\* (the prefix's root and components followed by p's components) and returns
\* a field holding a scalar that is neither a path nor a container unchanged.
C1_PathRule ==
    hpc # "start" =>
        \A i \in 1..Len(config.f) :
            LET old == FieldValue(config, i)
                new == FieldValue(hydrated, i)
            IN  /\ (old.k = "path" /\ ~old.abs) =>
                        new = PyPath(prefix.abs, prefix.parts \o old.parts)
                /\ old.k \in {"int", "str", "ndarray", "none"} => new = old

C1_Witness ==
    /\ hpc = "hydrated"
    /\ prefix = PyPath(TRUE, <<"P">>)
    /\ FieldValue(config, 2) = RelA
    /\ FieldValue(hydrated, 2) = AbsPA
    /\ FieldValue(hydrated, 1) = PyStr("r")

\* the shape of one field value is kept: a dict stays a dict with as many keys,
\* a list stays a list and a tuple a tuple of the same length, a nested record
\* keeps its class and field names, a path stays a path, any other leaf is equal
SameShape(old, new) ==
    CASE old.k = "dict" -> new.k = "dict" /\ Len(new.kv) = Len(old.kv)
      [] old.k \in {"list", "tuple"} -> new.k = old.k /\ Len(new.v) = Len(old.v)
      [] old.k = "attrs" ->
            new.k = "attrs" /\ new.cls = old.cls /\ FieldNames(new) = FieldNames(old)
      [] old.k = "path" -> new.k = "path"
      [] OTHER -> new = old

\* C2: the hydrated record has the record type and the field names of the
\* input, every dict field keeps its number of keys, every list or tuple field
\* keeps its container kind and its length, and leaves that are no paths keep
\* their value.
C2_ShapePreserved ==
    hpc # "start" =>
        /\ hydrated.k = "attrs"
        /\ hydrated.cls = config.cls
        /\ FieldNames(hydrated) = FieldNames(config)
        /\ \A i \in 1..Len(config.f) :
                SameShape(FieldValue(config, i), FieldValue(hydrated, i))

RECURSIVE FullyHydrated(_, _, _)
\* every relative path below old, through records, dicts, lists and tuples of
\* any depth, is found in new at the same place with the prefix joined to it
FullyHydrated(old, new, pfx) ==
    CASE old.k = "path" ->
            (~old.abs) => new = PyPath(pfx.abs, pfx.parts \o old.parts)
      [] old.k \in {"list", "tuple"} ->
            /\ new.k \in {"list", "tuple"}
            /\ Len(new.v) = Len(old.v)
            /\ \A i \in 1..Len(old.v) : FullyHydrated(old.v[i], new.v[i], pfx)
      [] old.k = "dict" ->
            /\ new.k = "dict"
            /\ \A i \in 1..Len(old.kv) : \E j \in 1..Len(new.kv) :
                    /\ FullyHydrated(old.kv[i][1], new.kv[j][1], pfx)
                    /\ FullyHydrated(old.kv[i][2], new.kv[j][2], pfx)
      [] old.k = "attrs" ->
            /\ new.k = "attrs"
            /\ Len(new.f) = Len(old.f)
            /\ \A i \in 1..Len(old.f) : FullyHydrated(old.f[i][2], new.f[i][2], pfx)
      [] OTHER -> TRUE

\* C3: after the walk every relative path reachable from the input through
\* any nesting of records, dicts and sequences is replaced by prefix / path.
C3_AnyDepth == hpc # "start" => FullyHydrated(config, hydrated, prefix)

\* a relative path the walk applies update_attr_value to
RECURSIVE WalkReachesRelPath(_)
ValueReachesRelPath(value) ==
    \/ value.k = "path" /\ ~value.abs
    \/ value.k = "attrs" /\ WalkReachesRelPath(value)

WalkReachesRelPath(rec) ==
    \E i \in 1..Len(rec.f) :
        LET fv == rec.f[i][2] IN
        CASE fv.k = "dict" ->
                \E j \in 1..Len(fv.kv) :
                    ValueReachesRelPath(fv.kv[j][1]) \/ ValueReachesRelPath(fv.kv[j][2])
          [] fv.k \in {"list", "tuple"} ->
                \E j \in 1..Len(fv.v) : ValueReachesRelPath(fv.v[j])
          [] OTHER -> ValueReachesRelPath(fv)

HasPathField(rec) == \E i \in 1..Len(rec.f) : rec.f[i][2].k = "path"

C9_FirstMatch ==
    (lkResult # None /\ HasAttr(lkConfig, lkStep)) =>
        LET possibilities == GetAttr(lkConfig, lkStep).v
            ids == StepIds(possibilities)
        IN  \A i \in 1..Len(ids) :
                (ids[i] = lkId /\ \A j \in 1..(i - 1) : ids[j] # lkId)
                    => lkResult = [status |-> "return", value |-> possibilities[i]]

C9_Witness ==
    /\ lkStep = "step_a"
    /\ lkId = "main"
    /\ GetAttr(lkConfig, "step_a").v =
            <<StepConfigA("junk", "o1"), StepConfigA("main", "o2"), StepConfigA("main", "o1")>>
    /\ lkResult = [status |-> "return", value |-> StepConfigA("main", "o2")]

\* C10: when no record of the step has the requested id the lookup raises a
\* ValueError whose message lists the step_config_id of every record of the
\* step in sequence order; when the step is no field of the config it raises
\* an AttributeError.
C10_LookupFailure ==
    lkResult # None =>
        /\ ~HasAttr(lkConfig, lkStep) =>
                (lkResult.status = "raise" /\ lkResult.exc = "AttributeError")
        /\ HasAttr(lkConfig, lkStep) =>
                LET ids == StepIds(GetAttr(lkConfig, lkStep).v) IN
                (\A i \in 1..Len(ids) : ids[i] # lkId) =>
                    /\ lkResult.status = "raise"
                    /\ lkResult.exc = "ValueError"
                    /\ lkResult.msg.available = ids
                    /\ lkResult.msg.step_config_id = lkId
                    /\ lkResult.msg.step = lkStep

C10_Witness ==
    /\ lkStep = "step_a"
    /\ lkId = "gnome"
    /\ Len(GetAttr(lkConfig, "step_a").v) = 3
    /\ lkResult # None
    /\ lkResult.status = "raise"
    /\ lkResult.exc = "ValueError"
    /\ lkResult.msg.available = <<"junk", "main", "junk">>

C10_WitnessAttributeError ==
    /\ lkStep = "junk"
    /\ lkResult # None
    /\ lkResult.status = "raise"
    /\ lkResult.exc = "AttributeError"

(***************************************************************************)
(* Properties of to_doit_task.                                             *)
(***************************************************************************)
InSeq(x, seq) == \E i \in 1..Len(seq) : seq[i] = x
HasUptodate(task) == "uptodate" \in DOMAIN task
Returned(result) == result # None /\ result.status = "return"

\* the first half of C5: a returned task record has the configuration file in
\* file_dep and no uptodate entry exactly when configuration is None, and a
\* record is returned whenever configuration is None or a converter is given
ConfigFileBranch ==
    /\ (tResult # None /\ (tSelf.configuration = None \/ tArgs.converter # None))
            => tResult.status = "return"
    /\ Returned(tResult) =>
            ((InSeq(tSelf.config_file, tResult.value.file_dep) /\ ~HasUptodate(tResult.value))
                <=> tSelf.configuration = None)

\* with a configuration and a converter the record has an uptodate entry of
\* one predicate, built from converter.dumps(configuration, sort_keys=True)
UptodateBranch ==
    (Returned(tResult) /\ tSelf.configuration # None /\ tArgs.converter # None) =>
        /\ HasUptodate(tResult.value)
        /\ tResult.value.uptodate =
                <<[cls |-> "config_changed",
                   config |-> [dumps |-> tSelf.configuration, sort_keys |-> TRUE]]>>

C5_WitnessNoConfiguration ==
    /\ Returned(tResult)
    /\ tSelf.configuration = None
    /\ tSelf.dependencies = <<Dependency>>
    /\ ~HasUptodate(tResult.value)
    /\ tResult.value.file_dep =
            <<Dependency, PyPath(TRUE, <<"raw", "a", "plot.py">>), ConfigFile>>

C6_WitnessNoConfiguration ==
    /\ tResult # None
    /\ tArgs.converter = None
    /\ tSelf.configuration = None
    /\ tResult.status = "return"

(***************************************************************************)
(* gen_notebook_tasks: what is yielded, and in which order                 *)
(***************************************************************************)
IsBaseRecord(task) == "actions" \notin DOMAIN task
GenN == Len(gIn.unconfigured_notebooks)
GenM == Len(GenStepIds(gIn))
\* configure_notebooks returns one notebook per unconfigured notebook for
\* every id, and to_doit_task has the converter it needs
GenWellConfigured ==
    /\ \A m \in 1..GenM : Len(Configure(gIn, GenStepIds(gIn)[m])) = GenN
    /\ gIn.configuration = None \/ gIn.converter # None

\* C7: over N unconfigured notebooks and M distinct step_config_ids the
\* generator yields exactly N + N*M records: the k-th record, k <= N, is the
\* base record of the k-th notebook; after them come M groups of N configured
\* records, the groups in the order of the ids in the hydrated config and the
\* records of a group in notebook order; so no configured record comes before
\* the last base record.  The generator then stops without an exception.
C7_CardinalityAndOrdering ==
    gpc.at # "idle" =>
        /\ Len(yielded) <= GenN + GenN * GenM
        /\ \A k \in 1..Len(yielded) :
              IF k <= GenN
              THEN /\ IsBaseRecord(yielded[k])
                   /\ yielded[k] = BaseTaskOf(gIn.unconfigured_notebooks[k])
              ELSE LET id == GenStepIds(gIn)[((k - GenN - 1) \div GenN) + 1]
                       nb == gIn.unconfigured_notebooks[((k - GenN - 1) % GenN) + 1]
                   IN  /\ ~IsBaseRecord(yielded[k])
                       /\ yielded[k].name = id
                       /\ yielded[k].basename = BaseTaskOf(nb).basename
                       /\ yielded[k].actions[1][3].notebook_parameters.step_config_id = id
        /\ gpc.at = "done" => Len(yielded) = GenN + GenN * GenM
        /\ GenWellConfigured => gpc.at # "raised"

\* two notebooks and two ids, all six records yielded and the generator done
C7_Witness ==
    /\ gpc.at = "done"
    /\ GenN = 2
    /\ GenM = 2
    /\ Len(yielded) = 6
    /\ IsBaseRecord(yielded[2])
    /\ ~IsBaseRecord(yielded[3])

\* C8: once configure_notebooks has returned fewer configured notebooks than
\* the unconfigured notebooks it was given, the generator has ended with a
\* NotImplementedError, that call was its last one, and no configured record
\* of that step_config_id has been yielded.
C8_MismatchedCardinality ==
    gpc.at # "idle" =>
        \A c \in 1..Len(gCalls) :
            Len(Configure(gIn, gCalls[c])) < GenN =>
                /\ gpc.at = "raised"
                /\ gErr.exc = "NotImplementedError"
                /\ c = Len(gCalls)
                /\ \A k \in 1..Len(yielded) :
                      ~IsBaseRecord(yielded[k]) => yielded[k].name # gCalls[c]

\* the second id comes back one notebook short after the first id's group
\* of two was yielded in full
C8_Witness ==
    /\ gpc.at = "raised"
    /\ gErr.exc = "NotImplementedError"
    /\ GenN = 2
    /\ Len(gCalls) = 2
    /\ Len(Configure(gIn, gCalls[2])) = 1
    /\ Len(yielded) = 4

\* the only id comes back short: nothing but the base records was yielded
C8_WitnessFirstGroup ==
    /\ gpc.at = "raised"
    /\ gErr.exc = "NotImplementedError"
    /\ Len(gCalls) = 1
    /\ Len(yielded) = GenN
    /\ GenN >= 1

(***************************************************************************)
(* Properties of the step_config_id helpers.                               *)
(***************************************************************************)
IdItems == idIn.items
AllHaveStepConfigId == Offending(IdItems) = {}
PairwiseDistinct(ids) == \A i, j \in 1..Len(ids) : i # j => ids[i] # ids[j]
\* the ids that occur at more than one position
DuplicatedIds(ids) == {ids[i] : i \in {i \in 1..Len(ids) : \E j \in 1..Len(ids) : j # i /\ ids[j] = ids[i]}}
FirstIndex(ids, x) == Min({i \in 1..Len(ids) : ids[i] = x})
\* a list names every duplicated id once
NamesEachOnce(list, ids) ==
    /\ {list[i] : i \in 1..Len(list)} = DuplicatedIds(ids)
    /\ PairwiseDistinct(list)

\* C11: on a collection of step configs assert_step_config_ids_are_unique
\* returns exactly when the step_config_ids are pairwise distinct; otherwise
\* it raises an AssertionError whose message lists every id that occurs more
\* than once, each once.
C11_UniquenessValidator ==
    (uqResult # None /\ AllHaveStepConfigId) =>
        LET ids == StepIds(IdItems) IN
        /\ uqResult.status = "return" <=> PairwiseDistinct(ids)
        /\ ~PairwiseDistinct(ids) =>
              /\ uqResult.status = "raise"
              /\ uqResult.exc = "AssertionError"
              /\ \E list \in SeqsUpTo(DuplicatedIds(ids), Cardinality(DuplicatedIds(ids))) :
                    /\ NamesEachOnce(list, ids)
                    /\ uqResult.msg = MsgMustBeUnique(list)

\* two different ids are both duplicated and the validator has failed
C11_Witness ==
    /\ uqResult # None
    /\ AllHaveStepConfigId
    /\ Cardinality(DuplicatedIds(StepIds(IdItems))) = 2
    /\ uqResult.status = "raise"

\* all ids distinct and the validator has returned
C11_WitnessUnique ==
    /\ uqResult # None
    /\ AllHaveStepConfigId
    /\ Len(IdItems) = 3
    /\ uqResult.status = "return"

\* C12: get_step_config_ids returns the step_config_id of every element in
\* input order; if an element lacks the attribute it raises an AttributeError
\* that names the first such element in input order.
C12_IdExtraction ==
    idsResult # None =>
        IF AllHaveStepConfigId
        THEN idsResult = Return(StepIds(IdItems))
        ELSE idsResult = Raise("AttributeError", MsgMissing(IdItems[Min(Offending(IdItems))]))

\* the same for a list or tuple argument, which can be walked twice
C12_IdExtractionOfList ==
    (idsResult # None /\ idIn.kind = "list") =>
        IF AllHaveStepConfigId
        THEN idsResult = Return(StepIds(IdItems))
        ELSE idsResult = Raise("AttributeError", MsgMissing(IdItems[Min(Offending(IdItems))]))

\* an iterator whose only element without the attribute has been consumed
C12_WitnessIterator ==
    /\ idsResult # None
    /\ idIn.kind = "iterator"
    /\ idsResult.status = "raise"
    /\ idsResult.exc = "NotImplementedError"

\* C13: a field whose value is a str, a numpy array or a pint quantity is
\* not walked element by element: hydration returns the very same value (the
\* three-element array stays that array, the string stays that string).
C13_OpaqueLeaves ==
    hpc # "start" =>
        \A i \in 1..Len(config.f) :
            config.f[i][2].k \in {"str", "ndarray", "quantity"} =>
                /\ hydrated.f[i][1] = config.f[i][1]
                /\ hydrated.f[i][2] = config.f[i][2]

\* hydrated configurations whose field f is the array, the two-character
\* string or the quantity
C13_Witness ==
    /\ hpc # "start"
    /\ FieldValue(config, 2) = NdArray(<<1, 2, 3>>)
    /\ FieldValue(hydrated, 2) = NdArray(<<1, 2, 3>>)

C13_WitnessStr ==
    /\ hpc # "start"
    /\ FieldValue(config, 2) = PyStr("ab")
    /\ FieldValue(hydrated, 2) = PyStr("ab")

C13_WitnessQuantity ==
    /\ hpc # "start"
    /\ FieldValue(config, 2) = Quantity(<<1, 2>>, "m")

\* the raw notebook path, the two output paths and the parameters
ExpectedRawNotebook ==
    PathJoin(tArgs.root_dir_raw_notebooks,
             WithSuffix(tSelf.unconfigured_notebook.notebook_path,
                        tSelf.unconfigured_notebook.raw_notebook_ext))
ExpectedOutput(ending) ==
    PathJoin(tArgs.notebook_output_dir,
             PyPath(FALSE, <<PathName(tSelf.unconfigured_notebook.notebook_path) \o ending>>))
ExpectedParameters ==
    [config_file |-> PathStr(tSelf.config_file), step_config_id |-> tSelf.step_config_id]

\* C14: the task record has one action, which calls run_notebook with
\* keyword arguments named exactly raw_notebook, unexecuted_notebook,
\* executed_notebook and notebook_parameters, names run_notebook accepts, and
\* they carry the raw notebook path, the two output paths and the parameters.
C14_ActionInvocable ==
    Returned(tResult) =>
        LET actions == tResult.value.actions IN
        /\ Len(actions) = 1
        /\ actions[1][1] = "run_notebook"
        /\ actions[1][2] = <<>>
        /\ DOMAIN actions[1][3] =
              {"raw_notebook", "unexecuted_notebook", "executed_notebook", "notebook_parameters"}
        /\ ActionBinds(actions[1])
        /\ actions[1][3].raw_notebook = ExpectedRawNotebook
        /\ actions[1][3].unexecuted_notebook = ExpectedOutput("_unexecuted.ipynb")
        /\ actions[1][3].executed_notebook = ExpectedOutput(".ipynb")
        /\ actions[1][3].notebook_parameters = ExpectedParameters

\* what the record does carry: the same four values, the raw notebook path
\* under the name base_notebook, with which the call does not bind
C14_ActionAsBuilt ==
    Returned(tResult) =>
        LET actions == tResult.value.actions IN
        /\ Len(actions) = 1
        /\ actions[1][1] = "run_notebook"
        /\ DOMAIN actions[1][3] =
              {"base_notebook", "unexecuted_notebook", "executed_notebook", "notebook_parameters"}
        /\ ~ActionBinds(actions[1])
        /\ actions[1][3].base_notebook = ExpectedRawNotebook
        /\ actions[1][3].unexecuted_notebook = ExpectedOutput("_unexecuted.ipynb")
        /\ actions[1][3].executed_notebook = ExpectedOutput(".ipynb")
        /\ actions[1][3].notebook_parameters = ExpectedParameters

\* C15: file_dep is the declared dependencies in their order, then the raw
\* notebook path, then the configuration file if there is no configuration
\* and nothing else; targets is the declared targets.
C15_DependenciesAndTargets ==
    Returned(tResult) =>
        LET file_dep == tResult.value.file_dep
            n == Len(tSelf.dependencies)
        IN  /\ Len(file_dep) >= n + 1
            /\ SubSeq(file_dep, 1, n) = tSelf.dependencies
            /\ file_dep[n + 1] = ExpectedRawNotebook
            /\ Len(file_dep) = n + 1 + (IF tSelf.configuration = None THEN 1 ELSE 0)
            /\ tSelf.configuration = None => file_dep[n + 2] = tSelf.config_file
            /\ tResult.value.targets = tSelf.targets

\* two declared dependencies, a target, a notebook path that is absolute
C15_Witness ==
    /\ Returned(tResult)
    /\ Len(tSelf.dependencies) = 2
    /\ tSelf.dependencies[1] # tSelf.dependencies[2]
    /\ tSelf.targets # <<>>
    /\ Len(tResult.value.file_dep) = 3

\* C16: a configured record has name equal to the step_config_id, the
\* basename of the base task, the base task's doc followed by
\* ". step_config_id=" and the repr of the id, and clean as passed; the base
\* task of a record yielded by gen_notebook_tasks is the base record yielded
\* for the same unconfigured notebook.
C16_TaskNaming ==
    gpc.at # "idle" =>
        \A k \in 1..Len(yielded) :
            k > GenN =>
                LET j == ((k - GenN - 1) % GenN) + 1
                    id == GenStepIds(gIn)[((k - GenN - 1) \div GenN) + 1]
                    base == yielded[j]
                IN  /\ base = BaseTaskOf(gIn.unconfigured_notebooks[j])
                    /\ yielded[k].actions[1][3].base_notebook
                            = PathJoin(gIn.root_dir_raw_notebooks,
                                       WithSuffix(gIn.unconfigured_notebooks[j].notebook_path,
                                                  gIn.unconfigured_notebooks[j].raw_notebook_ext))
                    /\ yielded[k].name = id
                    /\ yielded[k].basename = base.basename
                    /\ yielded[k].doc = base.doc \o ". step_config_id=" \o Repr(PyStr(id))
                    /\ yielded[k].clean = gIn.clean

\* the second notebook's record for the second id has been yielded, clean set
C16_Witness ==
    /\ gpc.at = "configured"
    /\ GenN = 2
    /\ Len(yielded) = 6
    /\ gIn.clean

\* the positions at which the base record of a notebook was yielded
BasePositions(nb) ==
    {k \in 1..Len(yielded) :
        /\ IsBaseRecord(yielded[k])
        /\ yielded[k].basename = "(" \o PathStr(nb.notebook_path) \o ") " \o nb.summary}
BasePhaseOver ==
    \/ gpc.at \in {"configured", "done", "raised"}
    \/ gpc.at = "base" /\ gpc.i = GenN

\* C17: for every unconfigured notebook of the step the generator yields
\* exactly one base record: name None, basename "(<notebook_path>) <summary>",
\* doc the notebook's doc, and no actions, targets or file_dep.
C17_BaseRecords ==
    gpc.at # "idle" =>
        /\ \A j \in 1..GenN :
              LET nb == gIn.unconfigured_notebooks[j] IN
              /\ Cardinality(BasePositions(nb)) <= 1
              /\ BasePhaseOver => Cardinality(BasePositions(nb)) = 1
              /\ \A k \in BasePositions(nb) :
                    /\ yielded[k].name = None
                    /\ yielded[k].doc = nb.doc
                    /\ DOMAIN yielded[k] = {"basename", "name", "doc"}
        /\ \A k \in 1..Len(yielded) :
              IsBaseRecord(yielded[k]) =>
                  \E j \in 1..GenN : k \in BasePositions(gIn.unconfigured_notebooks[j])

\* both base records of a step with two notebooks are out, and a configured
\* record after them
C17_Witness ==
    /\ gpc.at = "configured"
    /\ GenN = 2
    /\ Len(yielded) = 3
    /\ BasePositions(gIn.unconfigured_notebooks[2]) = {2}

(***************************************************************************)
(* Properties of generate_all_tasks.                                       *)
(***************************************************************************)
RECURSIVE Flatten(_, _)
\* the tasks of the steps from the s-th on, one step after the other
Flatten(steps, s) == IF s > Len(steps) THEN <<>> ELSE steps[s] \o Flatten(steps, s + 1)
AllStepTasks == Flatten(aIn.steps, 1)

\* C18: the generator yields the tasks of the steps, steps in the order of
\* step_defining_modules and tasks in the order of their generator, and then
\* one last item: what gen_zenodo_bundle_task returned, called once, after
\* all step tasks were yielded, with the list of the tasks yielded before.
C18_Aggregation ==
    apc.at # "idle" =>
        LET total == Len(AllStepTasks) IN
        /\ Len(aYielded) <= total + 1
        /\ \A k \in 1..Len(aYielded) : k <= total => aYielded[k] = AllStepTasks[k]
        /\ Len(zCalls) <= 1
        /\ Len(zCalls) = 1 <=> Len(aYielded) = total + 1
        /\ Len(zCalls) = 1 =>
              /\ zCalls[1] = SubSeq(aYielded, 1, total)
              /\ zCalls[1] = AllStepTasks
              /\ aYielded[total + 1] = GenZenodoBundleTask(zCalls[1])
        /\ apc.at = "done" => Len(aYielded) = total + 1
        /\ aIn.raising = 0 => apc.at # "raised"

\* two steps of two tasks each, in different orders, all of it consumed
C18_Witness ==
    /\ apc.at = "done"
    /\ Len(aIn.steps) = 2
    /\ Len(aIn.steps[1]) = 2
    /\ aIn.steps[1][1] # aIn.steps[1][2]
    /\ aIn.steps[2] # aIn.steps[1]
    /\ Len(aIn.steps[2]) = 2
    /\ Len(aYielded) = 5

(***************************************************************************)
(* Properties of run_notebook.                                             *)
(***************************************************************************)
CallsOf(callee) == {i \in 1..Len(rCalls) : rCalls[i].callee = callee}
RewriterCalls == CallsOf(RewriterOrDefault(rIn.notebook_rewriter))
ExecutorCalled == CallsOf(ExecutorOrDefault(rIn.notebook_executor))
ExecutorFailed == rpc = "raised" /\ ExecutorCalled # {}
\* the note that names the notebook that failed
NoteNaming(path, exc) ==
    PathStr(path) \o " failed to execute. Original exception: " \o exc.text

C19_WitnessNoNote ==
    /\ ExecutorFailed
    /\ rIn.minor = 10
    /\ rResult.exception.notes = <<>>

\* the executor has returned
C19_WitnessReturn == rpc = "done" /\ rResult = Return(None)

\* C20: in one call of run_notebook the rewriter is called exactly once and
\* the executor at most once, exactly once when it fails: a failed call is
\* not made again.
C20_NoRetry ==
    rpc # "idle" =>
        /\ Cardinality(RewriterCalls) = (IF rpc = "start" THEN 0 ELSE 1)
        /\ Cardinality(ExecutorCalled) <= 1
        /\ rpc = "done" => Cardinality(ExecutorCalled) = 1
        /\ Cardinality(CallsOf("mkdir")) <= 1
        /\ rpc \in {"done", "raised"} => Len(rCalls) <= 3

\* the executor was called and failed, and the call is over
C20_Witness ==
    /\ rpc = "raised"
    /\ rIn.executor_raises # None
    /\ Cardinality(ExecutorCalled) = 1
    /\ Cardinality(RewriterCalls) = 1

(***************************************************************************)
(* load_hydrate_write_config_bundle                                        *)
(***************************************************************************)
BundleCallees == [i \in 1..Len(bCalls) |-> bCalls[i].callee]
BundleReturned == bpc = "returned"

\* one load, one hydration with prefix root_dir_output_run, one bundle
\* creation with root_dir_output_run / configuration_file.name, one write to
\* that path, in this order
C21_CallOrder ==
    BundleReturned =>
        /\ BundleCallees = <<"load_configuration_file", "insert_path_prefix", "create_config_bundle", "write_config_in_config_bundle_to_disk">>
        /\ bCalls[1].args = <<bIn.configuration_file>>
        /\ bCalls[2].args[2] = bIn.root_dir_output_run
        /\ bCalls[3].args[1] = insert_path_prefix(bCalls[2].args[1], bIn.root_dir_output_run)
        /\ bCalls[3].args[2] = PathJoin(bIn.root_dir_output_run, NameOf(bIn.configuration_file))
        /\ bWrites = <<PathJoin(bIn.root_dir_output_run, NameOf(bIn.configuration_file))>>

\* the written text loads back to the returned bundle's config_hydrated
C21_RoundTrip ==
    BundleReturned =>
        Loads(bFiles[GetAttr(bResult.value, "config_hydrated_path")], bIn.target)
            = GetAttr(bResult.value, "config_hydrated")

\* the source configuration file is not written
C21_SourceNotWritten ==
    \A i \in 1..Len(bWrites) : bWrites[i] # bIn.configuration_file

\* C21: load_hydrate_write_config_bundle loads once, hydrates once with
\* prefix root_dir_output_run, creates the bundle once with
\* config_hydrated_path = root_dir_output_run / configuration_file.name and
\* writes exactly once to that path, in this order; the written text loads
\* back to a value equal to the returned bundle's config_hydrated, and the
\* source configuration file is not written.
C21_BundleLifecycle ==
    /\ C21_CallOrder
    /\ C21_RoundTrip
    /\ C21_SourceNotWritten

(***************************************************************************)
(* gen_copy_source_into_output_tasks                                       *)
(***************************************************************************)
\* the targets of the preceding tasks that have a targets entry, in order
ExpectedFileDep ==
    Flatten([i \in 1..Len(cIn.all_preceeding_tasks) |->
                IF "targets" \in DOMAIN cIn.all_preceeding_tasks[i]
                THEN cIn.all_preceeding_tasks[i].targets ELSE <<>>], 1)

\* README, Zenodo, other files, raw config, raw notebooks, source
ExpectedCopyNames ==
    <<"copy README", "copy Zenodo">>
    \o [i \in 1..Len(cIn.other_files_to_copy) |-> "copy " \o FileStr(cIn.other_files_to_copy[i])]
    \o <<"copy raw config", "copy raw notebooks", "copy source">>

\* C22: every task yielded by gen_copy_source_into_output_tasks has file_dep
\* equal to the concatenation, in order, of the targets of all preceding
\* tasks that have a targets entry; the tasks come in the order README,
\* Zenodo, other files, raw config, raw notebooks, source, and a generator
\* that is exhausted has yielded exactly 5 + len(other_files_to_copy) tasks.
C22_CopySourceDependencies ==
    /\ \A i \in 1..Len(cYielded) :
          /\ cYielded[i].file_dep = ExpectedFileDep
          /\ i <= Len(ExpectedCopyNames)
          /\ cYielded[i].name = ExpectedCopyNames[i]
    /\ cpc.at = "done" => Len(cYielded) = 5 + Len(cIn.other_files_to_copy)

C22_Witness ==
    /\ cpc.at = "done"
    /\ Len(cIn.other_files_to_copy) = 2
    /\ Len(cYielded) = 7
    /\ Len(cIn.all_preceeding_tasks) = 2
    /\ \A i \in 1..2 : "targets" \in DOMAIN cIn.all_preceeding_tasks[i]
    /\ cYielded[7].file_dep = Targets1 \o Targets2

\* a run whose preceding tasks include one without a targets entry
C22_WitnessNoTargets ==
    /\ cpc.at = "done"
    /\ \E i \in 1..Len(cIn.all_preceeding_tasks) : "targets" \notin DOMAIN cIn.all_preceeding_tasks[i]
    /\ cYielded[1].file_dep = Targets2

IsAbsoluteFile(file) == AsPath(file).abs

\* C23: if any value in other_files_to_copy is an absolute path, given as a
\* Path or as a string, get_copy_file_action_definitions raises ValueError,
\* and consuming the generator fails with a ValueError before any task is
\* yielded.
C23_AbsolutePathsRejected ==
    (/\ cpc.at # "idle"
     /\ \E i \in 1..Len(cIn.other_files_to_copy) : IsAbsoluteFile(cIn.other_files_to_copy[i]))
    => /\ get_copy_file_action_definitions(cIn.repo_root_dir, cIn.root_dir_output_run, cIn.other_files_to_copy, "copy_file").status = "raise"
       /\ get_copy_file_action_definitions(cIn.repo_root_dir, cIn.root_dir_output_run, cIn.other_files_to_copy, "copy_file").exc = "ValueError"
       /\ cYielded = <<>>
       /\ cpc.at \in {"start", "raised"}
       /\ cpc.at = "raised" => cErr.exc = "ValueError"

\* the same for absolute paths given as Path
C23_AbsolutePathObjectsRejected ==
    (/\ cpc.at # "idle"
     /\ \E i \in 1..Len(cIn.other_files_to_copy) :
           cIn.other_files_to_copy[i].k = "path" /\ IsAbsoluteFile(cIn.other_files_to_copy[i]))
    => /\ get_copy_file_action_definitions(cIn.repo_root_dir, cIn.root_dir_output_run, cIn.other_files_to_copy, "copy_file").status = "raise"
       /\ cYielded = <<>>
       /\ cpc.at \in {"start", "raised"}
       /\ cpc.at = "raised" => cErr.exc = "ValueError"

(***************************************************************************)
(* assert_path_is_subdirectory_of_root_dir_output                          *)
(***************************************************************************)
SubCalled == vIn # None /\ vResult # None
ValueInside == IsRelativeTo(vIn.value, vIn.instance.root_dir_output)

\* the validator returns for a value inside root_dir_output and raises an
\* AssertionError otherwise
C24_RaisesAssertionError ==
    SubCalled =>
        IF ValueInside THEN vResult = Return(None)
        ELSE /\ vResult.status = "raise"
             /\ vResult.exception.cls = "AssertionError"
             /\ vResult.exception.cause = None

\* C24: assert_path_is_subdirectory_of_root_dir_output returns without error
\* when value is inside instance.root_dir_output, and otherwise raises an
\* AttributeInitialisationError whose cause is an AssertionError naming the
\* attribute, the value and root_dir_output.
C24_AddsAttrsContext ==
    SubCalled =>
        IF ValueInside THEN vResult = Return(None)
        ELSE /\ vResult.status = "raise"
             /\ vResult.exception.cls = "AttributeInitialisationError"
             /\ vResult.exception.cause # None
             /\ vResult.exception.cause.cls = "AssertionError"
             /\ vResult.exception.cause.text = MsgNotSubDirectory(vIn.instance, vIn.attribute, vIn.value)

(***************************************************************************)
(* run_notebook: the order of its steps and a failing rewriter             *)
(***************************************************************************)
MkdirCalls == CallsOf("mkdir")
\* the parameters the executor has to receive
EmptyMapping == PyDict(<<>>)
ExpectedExecutorParameters ==
    IF rIn.notebook_parameters = None THEN EmptyMapping ELSE rIn.notebook_parameters
\* this step appends a call of the executor to the log
ExecutorInvokedNow ==
    /\ Len(rCalls') = Len(rCalls) + 1
    /\ rCalls'[Len(rCalls')].callee = ExecutorOrDefault(rIn.notebook_executor)

\* C25: in every call of run_notebook the rewriter is invoked with
\* (raw_notebook, unexecuted_notebook) before the executor is invoked with
\* (unexecuted_notebook, executed_notebook, parameters); the parent directory
\* of executed_notebook exists when the executor is invoked; and a
\* notebook_parameters of None reaches the executor as an empty mapping.
C25_StepOrder ==
    /\ [](rIn # None =>
            \A e \in ExecutorCalled :
                /\ \E r \in RewriterCalls :
                      /\ r < e
                      /\ rCalls[r].args = <<rIn.raw_notebook, rIn.unexecuted_notebook>>
                /\ rCalls[e].args = <<rIn.unexecuted_notebook, rIn.executed_notebook, ExpectedExecutorParameters>>)
    /\ [][ExecutorInvokedNow => rParentExists]_vars

C25_Witness ==
    /\ rpc = "done"
    /\ rIn.notebook_parameters = None
    /\ MkdirCalls # {}
    /\ \E e \in ExecutorCalled : rCalls[e].args[3] = EmptyMapping /\ e = 3

RewriterFailed == rIn # None /\ rpc = "raised" /\ rIn.rewriter_raises # None

\* C26: if the notebook rewriter raises during run_notebook, the executor is
\* never invoked, run_notebook makes no directory for the executed notebook,
\* and the rewriter's exception propagates as it is, not wrapped in a
\* NotebookExecutionException; a failure to create the executed notebook's
\* parent directory is wrapped.
C26_RewriterFailure ==
    /\ RewriterFailed =>
          /\ ExecutorCalled = {}
          /\ MkdirCalls = {}
          /\ rResult.status = "raise"
          /\ rResult.exception = rIn.rewriter_raises
          /\ rResult.exception.cls # "NotebookExecutionException"
    /\ (rIn # None /\ rpc = "raised" /\ rIn.rewriter_raises = None /\ ExecutorCalled = {}) =>
          /\ MkdirCalls # {}
          /\ rResult.status = "raise"
          /\ rResult.exception.cls = "NotebookExecutionException"
          /\ rResult.exception.cause = rIn.mkdir_raises

C26_Witness ==
    /\ RewriterFailed
    /\ rIn.rewriter_makes_parent
    /\ rResult.exception.cls = "FileNotFoundError"

\* a run in which the creation of the directory failed
C26_WitnessMkdir ==
    /\ rpc = "raised"
    /\ rIn.rewriter_raises = None
    /\ MkdirCalls # {}
    /\ ExecutorCalled = {}
    /\ rResult.exception.cause.cls = "PermissionError"

(***************************************************************************)
(* to_doit_task: output paths of two notebooks, and repeated calls         *)
(***************************************************************************)
ExecutedOf(result) == result.value.actions[1][3].executed_notebook
UnexecutedOf(result) == result.value.actions[1][3].unexecuted_notebook
BothReturned ==
    /\ hResults # <<>>
    /\ hResults[1].status = "return"
    /\ hOtherResult # None
    /\ hOtherResult.status = "return"

\* the two paths of one notebook differ and lie inside notebook_output_dir
C27_OneNotebook ==
    \A i \in 1..Len(hResults) :
        hResults[i].status = "return" =>
            /\ ExecutedOf(hResults[i]) # UnexecutedOf(hResults[i])
            /\ IsRelativeTo(ExecutedOf(hResults[i]), hArgs.notebook_output_dir)
            /\ IsRelativeTo(UnexecutedOf(hResults[i]), hArgs.notebook_output_dir)

\* notebooks whose notebook_path differ in the last component get different
\* paths
C27_DistinctNames ==
    (/\ BothReturned
     /\ PathName(hSelf.unconfigured_notebook.notebook_path) # PathName(hOther.unconfigured_notebook.notebook_path))
    => /\ ExecutedOf(hResults[1]) # ExecutedOf(hOtherResult)
       /\ UnexecutedOf(hResults[1]) # UnexecutedOf(hOtherResult)

\* C27: for two ConfiguredNotebooks of the same step and step_config_id
\* whose notebook_path values differ, to_doit_task called with the same
\* notebook_output_dir gives different executed-notebook paths and different
\* unexecuted-notebook paths, both inside notebook_output_dir; and for one
\* notebook the executed and the unexecuted path differ.
C27_NoCollision ==
    /\ C27_OneNotebook
    /\ (/\ BothReturned
        /\ hSelf.unconfigured_notebook.notebook_path # hOther.unconfigured_notebook.notebook_path) =>
          /\ ExecutedOf(hResults[1]) # ExecutedOf(hOtherResult)
          /\ UnexecutedOf(hResults[1]) # UnexecutedOf(hOtherResult)
          /\ IsRelativeTo(ExecutedOf(hOtherResult), hArgs.notebook_output_dir)
          /\ IsRelativeTo(UnexecutedOf(hOtherResult), hArgs.notebook_output_dir)

\* what a call has to return for the notebook as it was built
ExpectedTask ==
    to_doit_task(hSelf, hArgs.root_dir_raw_notebooks, hArgs.notebook_output_dir,
                 hArgs.base_task, hArgs.converter, hArgs.clean)
ResultNow(result) == IF result.status = "return" THEN Return(TaskNow(result.value)) ELSE result

\* C28: after any sequence of to_doit_task calls on one ConfiguredNotebook
\* its dependencies, targets and configuration and the base_task record are
\* what they were, also in the branch that appends the configuration file to
\* file_dep; every call returns the same task record, whose file_dep does
\* not grow from call to call.
C28_InputsUnchanged ==
    hSelf # None =>
        /\ SelfNow = hSelf
        /\ hArgs.base_task = BaseTask
        /\ \A i \in 1..Len(hResults) :
              /\ ResultNow(hResults[i]) = ResultNow(hResults[1])
              /\ ResultNow(hResults[i]) = ExpectedTask
              /\ hResults[i].status = "return" =>
                    Len(TaskNow(hResults[i].value).file_dep)
                        = Len(hSelf.dependencies) + 1 + (IF hSelf.configuration = None THEN 1 ELSE 0)

C28_Witness ==
    /\ Len(hResults) >= 2
    /\ hSelf.configuration = None
    /\ hSelf.dependencies # <<>>
    /\ hResults[2].status = "return"
    /\ TaskNow(hResults[2].value).file_dep = hSelf.dependencies \o <<RawNotebook(hSelf, hArgs.root_dir_raw_notebooks), hSelf.config_file>>

(***************************************************************************)
(* insert_path_prefix leaves its argument alone                            *)
(***************************************************************************)
AddressesOf(objs) == {o[1] : o \in objs}
ArgumentObjects == ObjectsOf(config, ConfigAddress)

\* C29: insert_path_prefix(C, P) returns a new record and leaves C as it
\* was, its dict- and list-valued fields and the records nested in them
\* included: after the walk every object of C holds the value it held
\* before, and the returned record is none of C's objects.
C29_HydrationIsPure ==
    hpc \in {"hydrated", "rehydrated"} =>
        /\ ArgumentObjects \subseteq objects
        /\ \E o \in objects :
              /\ o[2] = hydrated
              /\ o[1] \notin AddressesOf(ArgumentObjects)
        /\ hpc = "rehydrated" =>
              \E o \in objects :
                  /\ o[2] = rehydrated
                  /\ o[1] \notin AddressesOf(ArgumentObjects)
                  /\ \E h \in objects : h[2] = hydrated /\ h[1] # o[1]

\* a walk over a dict whose values are paths and were prefixed
C29_Witness ==
    /\ hpc = "hydrated"
    /\ prefix = AbsP
    /\ FieldValue(config, 2).k = "dict"
    /\ FieldValue(config, 2).kv # <<>>
    /\ FieldValue(hydrated, 2) # FieldValue(config, 2)
    /\ <<"config.f", FieldValue(config, 2)>> \in objects

\* a walk over a list that holds a nested record
C29_WitnessNested ==
    /\ hpc = "hydrated"
    /\ prefix = AbsP
    /\ FieldValue(config, 2).k = "list"
    /\ \E j \in 1..Len(FieldValue(config, 2).v) :
          /\ FieldValue(config, 2).v[j].k = "attrs"
          /\ <<"config.f[" \o ToString(j) \o "]", FieldValue(config, 2).v[j]>> \in objects
          /\ FieldValue(hydrated, 2).v[j] # FieldValue(config, 2).v[j]

(***************************************************************************)
(* copy_readme_default                                                     *)
(***************************************************************************)
ReadmeCalled == mIn # None /\ mResult # None
ReadmeRaised(exc) == mResult.status = "raise" /\ mResult.exc = exc
InstructionMissing ==
    /\ mFilesBefore[mIn.in_path] # Absent
    /\ ~Contains(mFilesBefore[mIn.in_path].text, mIn.raw_run_instruction)
ExpectedRunCommand ==
    IF mIn.get_pydoit_nb_run_command = None
    THEN "DOIT_CONFIGURATION_FILE=" \o PathStr(mIn.config_file_raw) \o " " \o JoinText(mIn.raw_run_instruction)
    ELSE "injected " \o PathStr(mIn.config_file_raw) \o " " \o JoinText(mIn.raw_run_instruction)

\* C30: copy_readme_default raises ValueError when config_file_raw is
\* absolute and, for a relative config_file_raw, AssertionError when the
\* expected run instruction is not in the input README; in both cases (as
\* after every error) out_path is neither created nor modified; when the
\* call returns, out_path holds the input README text followed by the
\* footer with the run command.
C30_ReadmeWritesNothingOnError ==
    ReadmeCalled =>
        /\ mIn.config_file_raw.abs => ReadmeRaised("ValueError")
        /\ (~mIn.config_file_raw.abs /\ InstructionMissing) => ReadmeRaised("AssertionError")
        /\ mResult.status = "raise" => mFiles = mFilesBefore
        /\ mResult.status = "return" =>
              /\ mFiles[mIn.out_path].text
                    = mFilesBefore[mIn.in_path].text
                      \o <<Footer(mIn.in_path, mIn.run_id, ExpectedRunCommand)>>
              /\ \A p \in DOMAIN mFiles : p # mIn.out_path => mFiles[p] = mFilesBefore[p]

\* the instruction is missing and out_path held a file before the call
C30_Witness ==
    /\ ReadmeCalled
    /\ ReadmeRaised("AssertionError")
    /\ mIn.out_path = ReadmeOut
    /\ mFilesBefore[ReadmeOut] # Absent
    /\ mFilesBefore[ReadmeIn].text # <<>>

C30_WitnessAbsolute ==
    /\ ReadmeCalled
    /\ ReadmeRaised("ValueError")
    /\ mFilesBefore[ReadmeOut] = Absent
    /\ mFiles[ReadmeOut] = Absent

C30_WitnessSuccess ==
    /\ ReadmeCalled
    /\ mResult = Return(None)
    /\ mIn.out_path = ReadmeOut
    /\ mFilesBefore[ReadmeOut] = Absent
    /\ Len(mFiles[ReadmeOut].text) = 4
====
